---- MODULE Spec2Model ----
(***************************************************************************)
(* Ticket sales of the cinema booking service: TicketsService and           *)
(* TicketsRepository running against PostgreSQL (READ COMMITTED) through    *)
(* TypeORM.  Every awaited database statement is one atomic step; the       *)
(* statements of one dataSource.transaction see the committed rows plus the *)
(* transaction's own pending writes, which become visible at COMMIT.        *)
(***************************************************************************)
EXTENDS Integers, Sequences, FiniteSets, TLC

\* ------------------------------------------------------------------ bounds
MaxTickets == 3        \* ticket rows ever inserted (generated ids 1..MaxTickets)
MaxNow == 1            \* the clock runs over 0..MaxNow
MaxCapacity == 2       \* capacity of theater "th1" is drawn from 1..MaxCapacity
MaxDebt == 1           \* update calls arrive while sold_tickets > -MaxDebt
MaxTime == 2           \* requested start times are drawn from 0..MaxTime

Procs == {"w1", "w2", "w3"}          \* request handlers
Workers == {"w1", "w2"}              \* the handlers that serve arbitrary calls
NoProc == "none"
ShowtimeIds == {"s1", "s2"}          \* showtime rows of the database
UnknownShowtime == "s9"              \* an id no row has
TheaterIds == {"th1", "th2"}
TicketIds == 1..MaxTickets
MovieIds == {"m1", "m2"}

\* The movies table as seeded: the duration of each movie.
InitialMovies == [m \in MovieIds |-> [duration |-> IF m = "m1" THEN 1 ELSE 2]]

PURCHASED == "purchased"
CANCELLED == "cancelled"
RESERVED == "reserved"

\* ----------------------------------------------------------------- strings
\* A string is a sequence of one-character strings.
UpperLetters ==
    {"A","B","C","D","E","F","G","H","I","J","K","L","M",
     "N","O","P","Q","R","S","T","U","V","W","X","Y","Z"}
Digits == {"0","1","2","3","4","5","6","7","8","9"}
Whitespace == {" "}

toUpperChar(c) ==
    CASE c = "a" -> "A" [] c = "b" -> "B" [] c = "x" -> "X" [] OTHER -> c
toLowerChar(c) ==
    CASE c = "A" -> "a" [] c = "B" -> "b" [] c = "X" -> "x" [] OTHER -> c

toUpperCase(s) == [i \in 1..Len(s) |-> toUpperChar(s[i])]
toLowerCase(s) == [i \in 1..Len(s) |-> toLowerChar(s[i])]

RECURSIVE trimStart(_)
trimStart(s) ==
    IF s # <<>> /\ Head(s) \in Whitespace THEN trimStart(Tail(s)) ELSE s

RECURSIVE trimEnd(_)
trimEnd(s) ==
    IF s # <<>> /\ s[Len(s)] \in Whitespace
    THEN trimEnd(SubSeq(s, 1, Len(s) - 1)) ELSE s

trim(s) == trimEnd(trimStart(s))

\* /^[^\s@]+@[^\s@]+\.[^\s@]+$/
isValidEmail(email) ==
    LET plain(a, b) == a <= b /\ \A i \in a..b : email[i] \notin Whitespace \cup {"@"}
    IN \E i \in 1..Len(email) : \E j \in 1..Len(email) :
          /\ i < j
          /\ email[i] = "@"
          /\ email[j] = "."
          /\ plain(1, i - 1)
          /\ plain(i + 1, j - 1)
          /\ plain(j + 1, Len(email))

\* /^[A-Z]{1,2}-\d{1,3}$/ applied to seatNumber.toUpperCase()
isValidSeatNumber(seatNumber) ==
    LET u == toUpperCase(seatNumber)
    IN \E k \in 1..2 :
          /\ Len(u) >= k + 2
          /\ Len(u) <= k + 4
          /\ \A i \in 1..k : u[i] \in UpperLetters
          /\ u[k + 1] = "-"
          /\ \A i \in (k + 2)..Len(u) : u[i] \in Digits

\* ------------------------------------------------------------------ inputs
SeatInputs ==
    { <<"A","-","1">>, <<"a","-","1">>, <<"A","-","2">>, <<" ","A","-","2">>, <<"A","1">> }
EmailInputs == { <<"X","@","b",".","a">>, <<"x","b",".","a">> }
NameInputs == { <<" ","A","b">> }

PurchaseTicketDtos ==
    [customer_name : NameInputs, customer_email : EmailInputs, seat_number : SeatInputs]

\* Bodies of PATCH /tickets/:id. Every field is optional: {} when absent,
\* {value} when given. The bodies tried carry one field, or a seat and a status.
UpdateSeatInputs ==
    { <<"A","-","1">>, <<"A","-","2">>, <<"a","-","2">>, <<" ","A","-","2">> }
UpdateEmailInputs == { <<"X","@","b",".","a">>, <<"x","b",".","a">> }
Optional(S) == {{}} \cup { {v} : v \in S }

UpdateTicketDtos ==
    { dto \in [customer_name : Optional(NameInputs),
               customer_email : Optional(UpdateEmailInputs),
               seat_number : Optional(UpdateSeatInputs),
               status : Optional({"reserved", "purchased", "cancelled"})] :
        LET given == { f \in DOMAIN dto : dto[f] # {} }
        IN  \/ Cardinality(given) = 1
            \/ given = {"seat_number", "status"} }

NoData == [customer_name |-> <<>>, customer_email |-> <<>>, seat_number |-> <<>>]

\* ------------------------------------------------------------------- state
VARIABLES
    now,        \* the clock read by new Date()
    movies,     \* movies table: id -> row
    theaters,   \* theaters table: id -> row
    showtimes,  \* showtimes table: id -> row
    tickets,    \* tickets table: id -> row, for the ids that have a row
    nextId,     \* the next generated ticket id
    lock,       \* showtime id -> transaction holding the row lock of that showtime
    tlock,      \* ticket id -> transaction holding the row lock of that ticket
    pc,         \* position of each request handler
    local,      \* local variables of each request handler
    result      \* outcome of the last call each request handler returned from

vars == <<now, movies, theaters, showtimes, tickets, nextId, lock, tlock, pc, local, result>>

\* --------------------------------------------------------------- outcomes
OK == "ok"
NotFound == "NotFoundException"
PastOrOngoing == "BadRequest: past or ongoing showtime"
InvalidEmail == "BadRequest: Invalid email format"
InvalidSeat == "BadRequest: Invalid seat number format"
SoldOut == "BadRequest: Showtime is sold out"
SeatTaken == "BadRequest: Seat is already occupied"
InvalidTicketState == "BadRequest: Only purchased tickets can be cancelled"
TicketGone == "BadRequest: Ticket not found"
ShowtimeGone == "Error: Showtime not found"

TicketVanished == "Error: Ticket with id not found"
NoResult == [op |-> "none", outcome |-> "none"]

Idle ==
    [op |-> "none", showtimeId |-> "", ticketId |-> 0,
     ticketData |-> NoData, showtime |-> {}, ticket |-> {}, saved |-> {},
     delta |-> 0, updated |-> FALSE, err |-> "", removing |-> FALSE]

\* ---------------------------------------------------------------- queries
\* Showtime joined with its theater, as findOne(..., relations: ['theater', ...]).
ShowtimeView(id) ==
    [id |-> id,
     start_time |-> showtimes[id].start_time,
     price |-> showtimes[id].price,
     sold_tickets |-> showtimes[id].sold_tickets,
     theater |-> [id |-> showtimes[id].theater_id,
                  capacity |-> theaters[showtimes[id].theater_id].capacity]]

findWithRelations(id) ==
    IF id \in DOMAIN showtimes THEN {ShowtimeView(id)} ELSE {}

TicketView(id) ==
    [id |-> id,
     seat_number |-> tickets[id].seat_number,
     status |-> tickets[id].status,
     price |-> tickets[id].price,
     showtime |-> [id |-> tickets[id].showtime_id,
                   start_time |-> showtimes[tickets[id].showtime_id].start_time]]

findWithShowtimeDetails(id) ==
    IF id \in DOMAIN tickets THEN {TicketView(id)} ELSE {}

\* A seat lookup that also finds Cancelled tickets.
findByShowtimeAndSeat_anyStatus(showtimeId, seatNumber) ==
    { TicketView(t) : t \in { u \in DOMAIN tickets :
          /\ tickets[u].showtime_id = showtimeId
          /\ tickets[u].seat_number = seatNumber } }

findByShowtimeAndSeat(showtimeId, seatNumber) ==
    { TicketView(t) : t \in { u \in DOMAIN tickets :
          /\ tickets[u].showtime_id = showtimeId
          /\ tickets[u].seat_number = seatNumber
          /\ tickets[u].status = PURCHASED } }

\* The seat numbers of the Purchased tickets of a showtime.
getOccupiedSeats(showtimeId) ==
    { tickets[t].seat_number : t \in { u \in DOMAIN tickets :
          tickets[u].showtime_id = showtimeId /\ tickets[u].status = PURCHASED } }

countTicketsByShowtime(showtimeId) ==
    Cardinality({ t \in DOMAIN tickets :
        tickets[t].showtime_id = showtimeId /\ tickets[t].status = PURCHASED })

\* -------------------------------------------------------------------- init
Init ==
    /\ now = 0
    /\ movies = InitialMovies
    /\ \E c \in 1..MaxCapacity :
          theaters = [th \in TheaterIds |-> [capacity |-> IF th = "th1" THEN c ELSE 1]]
    /\ showtimes =
          [s \in ShowtimeIds |->
              [start_time |-> IF s = "s1" THEN 1 ELSE 0,
               price |-> IF s = "s1" THEN 10 ELSE 12,
               sold_tickets |-> 0,
               theater_id |-> IF s = "s1" THEN "th1" ELSE "th2"]]
    /\ tickets = <<>>
    /\ nextId = 1
    /\ lock = [s \in ShowtimeIds |-> NoProc]
    /\ tlock = [t \in TicketIds |-> NoProc]
    /\ pc = [p \in Procs |-> "idle"]
    /\ local = [p \in Procs |-> Idle]
    /\ result = [p \in Procs |-> NoResult]

\* ----------------------------------------------------------------- returns
\* The call of handler p returns (or throws) with the given outcome.
Return(p, outcome) ==
    /\ pc' = [pc EXCEPT ![p] = "idle"]
    /\ local' = [local EXCEPT ![p] = Idle]
    /\ result' = [result EXCEPT ![p] =
           [op |-> local[p].op, outcome |-> outcome]]

Goto(p, label, loc) ==
    /\ pc' = [pc EXCEPT ![p] = label]
    /\ local' = [local EXCEPT ![p] = loc]
    /\ UNCHANGED result

\* Ticket ids still to be generated, net of the purchases already under way.
PendingPurchases ==
    Cardinality({ q \in Procs : pc[q] \in {"p_validate", "p_lock", "p_read", "p_seat", "p_save"} })

\* ------------------------------------------------------- the transaction
\* A transaction end that keeps the row locks of showtimes.
ReleaseLocks_keepShowtime(p) ==
    /\ lock' = lock
    /\ tlock' = [t \in DOMAIN tlock |-> IF tlock[t] = p THEN NoProc ELSE tlock[t]]

\* Row locks of a transaction are released when it commits or rolls back.
ReleaseLocks(p) ==
    /\ lock' = [s \in DOMAIN lock |-> IF lock[s] = p THEN NoProc ELSE lock[s]]
    /\ tlock' = [t \in DOMAIN tlock |-> IF tlock[t] = p THEN NoProc ELSE tlock[t]]

\* A lock request that never waits.
LockGranted_noWait(p, showtimeId) == TRUE

\* A lock on the whole showtimes table: granted when no row of it is locked.
LockGranted_global(p, showtimeId) == \A s \in DOMAIN lock : lock[s] = NoProc

\* SELECT ... FOR UPDATE on the showtime row: granted when no other
\* transaction holds a lock on that row.
LockGranted(p, showtimeId) == lock[showtimeId] = NoProc

\* The capacity check with > for >=.
IsSoldOut_offByOne(showtime) == showtime.sold_tickets > showtime.theater.capacity

\* if (showtime.sold_tickets >= showtime.theater.capacity)
IsSoldOut(showtime) == showtime.sold_tickets >= showtime.theater.capacity

\* The showtime as the service read it before the transaction began.
LockedRead_cached(p) == local[p].showtime

\* The showtime read inside the purchase transaction, after the lock.
LockedRead(p) == findWithRelations(local[p].showtimeId)

\* A seat lookup that looks at the holder's e-mail instead of the seat.
ExistingTicket_wrongColumn(p) ==
    findByShowtimeAndSeat(local[p].showtimeId, local[p].ticketData.customer_email)

\* The lookup of a Purchased ticket on the requested seat, inside the transaction.
ExistingTicket(p) ==
    findByShowtimeAndSeat(local[p].showtimeId, local[p].ticketData.seat_number)

\* A throw that reaches the caller without the transaction being rolled back.
Rollback_noRelease(p) ==
    /\ pc[p] = "rollback"
    /\ Return(p, local[p].err)
    /\ UNCHANGED <<now, movies, theaters, showtimes, tickets, nextId, lock, tlock>>

\* ROLLBACK after a throw inside the transaction callback: pending writes are
\* dropped, locks released, and the error reaches the caller.
Rollback(p) ==
    /\ pc[p] = "rollback"
    /\ ReleaseLocks(p)
    /\ Return(p, local[p].err)
    /\ UNCHANGED <<now, movies, theaters, showtimes, tickets, nextId>>

\* ----------------------------------------------------------- purchaseTicket
\* TicketsService.purchaseTicket: the call arrives and reads the showtime.
purchaseTicketOn(p, showtimeId) ==
    /\ pc[p] = "idle"
    /\ nextId + PendingPurchases <= MaxTickets
    /\ pc' = [pc EXCEPT ![p] = "p_validate"]
    /\ local' = [local EXCEPT ![p] =
          [Idle EXCEPT !.op = "purchaseTicket", !.showtimeId = showtimeId,
                       !.showtime = findWithRelations(showtimeId)]]
    /\ result' = [result EXCEPT ![p] = NoResult]
    /\ UNCHANGED <<now, movies, theaters, showtimes, tickets, nextId, lock, tlock>>

purchaseTicket(p) ==
    \E showtimeId \in ShowtimeIds \cup {UnknownShowtime} : purchaseTicketOn(p, showtimeId)

\* The validations of the service, then the start of the transaction.
purchaseTicket_validateDto(p, dto) ==
    /\ pc[p] = "p_validate"
    /\ LET l == local[p] IN
          IF l.showtime = {} THEN Return(p, NotFound)
          ELSE IF \E st \in l.showtime : st.start_time <= now THEN Return(p, PastOrOngoing)
          ELSE IF ~isValidEmail(dto.customer_email) THEN Return(p, InvalidEmail)
          ELSE IF ~isValidSeatNumber(dto.seat_number) THEN Return(p, InvalidSeat)
          ELSE Goto(p, "p_lock",
                    [l EXCEPT !.ticketData =
                                 [customer_name |-> trim(dto.customer_name),
                                  customer_email |-> trim(toLowerCase(dto.customer_email)),
                                  seat_number |-> toUpperCase(trim(dto.seat_number))]])
    /\ UNCHANGED <<now, movies, theaters, showtimes, tickets, nextId, lock, tlock>>

purchaseTicket_validate(p) ==
    \E dto \in PurchaseTicketDtos : purchaseTicket_validateDto(p, dto)

\* manager.findOne(Showtime, {lock: pessimistic_write}): waits for the row lock.
purchase_lock(p) ==
    /\ pc[p] = "p_lock"
    /\ LET id == local[p].showtimeId IN
          IF id \notin DOMAIN showtimes
          THEN /\ Goto(p, "rollback", [local[p] EXCEPT !.err = ShowtimeGone])
               /\ UNCHANGED lock
          ELSE /\ LockGranted(p, id)
               /\ lock' = [lock EXCEPT ![id] = p]
               /\ Goto(p, "p_read", local[p])
    /\ UNCHANGED <<now, movies, theaters, showtimes, tickets, nextId, tlock>>

\* manager.findOne(Showtime, {relations}) and the capacity check.
purchase_read(p) ==
    /\ pc[p] = "p_read"
    /\ LET read == LockedRead(p) IN
          IF read = {}
          THEN Goto(p, "rollback", [local[p] EXCEPT !.err = ShowtimeGone])
          ELSE IF \E st \in read : IsSoldOut(st)
          THEN Goto(p, "rollback", [local[p] EXCEPT !.showtime = read, !.err = SoldOut])
          ELSE Goto(p, "p_seat", [local[p] EXCEPT !.showtime = read])
    /\ UNCHANGED <<now, movies, theaters, showtimes, tickets, nextId, lock, tlock>>

\* manager.findOne(Ticket, {showtime, seat_number, status: PURCHASED}).
purchase_seat(p) ==
    /\ pc[p] = "p_seat"
    /\ LET existingTicket == ExistingTicket(p) IN
          IF existingTicket # {}
          THEN Goto(p, "rollback", [local[p] EXCEPT !.ticket = existingTicket, !.err = SeatTaken])
          ELSE Goto(p, "p_save", local[p])
    /\ UNCHANGED <<now, movies, theaters, showtimes, tickets, nextId, lock, tlock>>

\* A ticket that is given away whatever the showtime costs.
TicketPrice_free(showtime) == 0

\* price: showtime.price, from the showtime read inside the transaction.
TicketPrice(showtime) == showtime.price

\* manager.create + manager.save(ticket): the INSERT, pending until commit.
purchase_save(p) ==
    /\ pc[p] = "p_save"
    /\ LET l == local[p]
           row == [showtime_id |-> l.showtimeId,
                   seat_number |-> l.ticketData.seat_number,
                   customer_name |-> l.ticketData.customer_name,
                   customer_email |-> l.ticketData.customer_email,
                   status |-> PURCHASED,
                   price |-> TicketPrice(CHOOSE st \in l.showtime : TRUE)]
       IN Goto(p, "p_increment", [l EXCEPT !.ticketId = nextId, !.saved = {row}])
    /\ nextId' = nextId + 1
    /\ UNCHANGED <<now, movies, theaters, showtimes, tickets, lock, tlock>>

\* An increment that adds two to the counter.
purchase_increment_twice(p) ==
    /\ pc[p] = "p_increment"
    /\ Goto(p, "p_commit", [local[p] EXCEPT !.delta = 2])
    /\ UNCHANGED <<now, movies, theaters, showtimes, tickets, nextId, lock, tlock>>

\* manager.increment(Showtime, {id}, 'sold_tickets', 1), pending until commit.
purchase_increment(p) ==
    /\ pc[p] = "p_increment"
    /\ Goto(p, "p_commit", [local[p] EXCEPT !.delta = 1])
    /\ UNCHANGED <<now, movies, theaters, showtimes, tickets, nextId, lock, tlock>>

\* The final findOne of the complete ticket, then COMMIT.
purchase_commit(p) ==
    /\ pc[p] = "p_commit"
    /\ LET l == local[p] IN
          /\ tickets' = tickets @@ (l.ticketId :> (CHOOSE r \in l.saved : TRUE))
          /\ showtimes' = [showtimes EXCEPT ![l.showtimeId].sold_tickets = @ + l.delta]
    /\ ReleaseLocks(p)
    /\ Return(p, OK)
    /\ UNCHANGED <<now, movies, theaters, nextId>>

\* The clock advances.
Tick ==
    /\ now < MaxNow
    /\ now' = now + 1
    /\ UNCHANGED <<movies, theaters, showtimes, tickets, nextId, lock, tlock, pc, local, result>>

\* The steps of a purchase after the service's validations.
PurchaseTransaction(p) ==
    \/ purchase_lock(p)
    \/ purchase_read(p)
    \/ purchase_seat(p)
    \/ purchase_save(p)
    \/ purchase_increment(p)
    \/ purchase_commit(p)
    \/ Rollback(p)

PurchaseStep(p) ==
    \/ purchaseTicket(p)
    \/ purchaseTicket_validate(p)
    \/ PurchaseTransaction(p)

\* Purchases only, while the clock runs.
NextPurchase == Tick \/ \E p \in Procs : PurchaseStep(p)

SpecPurchase == Init /\ [][NextPurchase]_vars

\* ------------------------------------------------------------- cancelTicket
\* findWithShowtimeDetails(id) at the start of TicketsService.cancelTicket.
LoadTicket(p, id, op, removing) ==
    /\ pc' = [pc EXCEPT ![p] = "c_validate"]
    /\ local' = [local EXCEPT ![p] =
          [Idle EXCEPT !.op = op, !.ticketId = id, !.removing = removing,
                       !.ticket = findWithShowtimeDetails(id)]]

\* TicketsService.cancelTicket: the call arrives and reads the ticket.
cancelTicket(p) ==
    /\ pc[p] = "idle"
    /\ \E id \in TicketIds : LoadTicket(p, id, "cancelTicket", FALSE)
    /\ result' = [result EXCEPT ![p] = NoResult]
    /\ UNCHANGED <<now, movies, theaters, showtimes, tickets, nextId, lock, tlock>>

\* The same read when remove() calls cancelTicket(id).
cancelTicket_load(p) ==
    /\ pc[p] = "c_load"
    /\ LoadTicket(p, local[p].ticketId, local[p].op, TRUE)
    /\ UNCHANGED <<now, movies, theaters, showtimes, tickets, nextId, lock, tlock, result>>

\* The validations of the service, then the start of the transaction.
cancelTicket_validate(p) ==
    /\ pc[p] = "c_validate"
    /\ LET l == local[p] IN
          IF l.ticket = {} THEN Return(p, NotFound)
          ELSE IF \E t \in l.ticket : t.showtime.start_time <= now THEN Return(p, PastOrOngoing)
          ELSE IF \E t \in l.ticket : t.status # PURCHASED THEN Return(p, InvalidTicketState)
          ELSE Goto(p, "c_find", l)
    /\ UNCHANGED <<now, movies, theaters, showtimes, tickets, nextId, lock, tlock>>

\* The ticket read at the start of the cancel transaction: a plain SELECT.
TxTicket(p) == findWithShowtimeDetails(local[p].ticketId)

\* manager.findOne(Ticket, {relations: ['showtime']}) and the two checks.
cancel_find(p) ==
    /\ pc[p] = "c_find"
    /\ LET ticket == TxTicket(p) IN
          IF ticket = {}
          THEN Goto(p, "rollback", [local[p] EXCEPT !.ticket = ticket, !.err = TicketGone])
          ELSE IF \E t \in ticket : t.status # PURCHASED
          THEN Goto(p, "rollback", [local[p] EXCEPT !.ticket = ticket, !.err = InvalidTicketState])
          ELSE Goto(p, "c_update", [local[p] EXCEPT !.ticket = ticket])
    /\ UNCHANGED <<now, movies, theaters, showtimes, tickets, nextId, lock, tlock>>

\* manager.update(Ticket, {id}, {status: CANCELLED}): UPDATE ... WHERE id = $1
\* waits for the row lock of the ticket, then writes whatever the row's status is.
cancel_update(p) ==
    /\ pc[p] = "c_update"
    /\ LET id == local[p].ticketId IN
          IF id \notin DOMAIN tickets
          THEN /\ Goto(p, "c_decrement", local[p])
               /\ UNCHANGED tlock
          ELSE /\ tlock[id] = NoProc
               /\ tlock' = [tlock EXCEPT ![id] = p]
               /\ Goto(p, "c_decrement", [local[p] EXCEPT !.updated = TRUE])
    /\ UNCHANGED <<now, movies, theaters, showtimes, tickets, nextId, lock>>

\* manager.decrement(Showtime, {id: ticket.showtime.id}, 'sold_tickets', 1):
\* UPDATE ... SET sold_tickets = sold_tickets - 1 waits for the showtime's row lock.
cancel_decrement(p) ==
    /\ pc[p] = "c_decrement"
    /\ LET id == (CHOOSE t \in local[p].ticket : TRUE).showtime.id IN
          IF id \notin DOMAIN showtimes
          THEN /\ Goto(p, "c_commit", local[p])
               /\ UNCHANGED lock
          ELSE /\ lock[id] = NoProc
               /\ lock' = [lock EXCEPT ![id] = p]
               /\ Goto(p, "c_commit", [local[p] EXCEPT !.showtimeId = id, !.delta = -1])
    /\ UNCHANGED <<now, movies, theaters, showtimes, tickets, nextId, tlock>>

\* The final findOne of the ticket, then COMMIT.
cancel_commit(p) ==
    /\ pc[p] = "c_commit"
    /\ LET l == local[p] IN
          /\ tickets' = IF l.updated
                        THEN [tickets EXCEPT ![l.ticketId].status = CANCELLED]
                        ELSE tickets
          /\ showtimes' = IF l.delta # 0
                          THEN [showtimes EXCEPT ![l.showtimeId].sold_tickets = @ + l.delta]
                          ELSE showtimes
          /\ IF l.removing
             THEN Goto(p, "r_delete", [Idle EXCEPT !.op = l.op, !.ticketId = l.ticketId])
             ELSE Return(p, OK)
    /\ ReleaseLocks(p)
    /\ UNCHANGED <<now, movies, theaters, nextId>>

\* ------------------------------------------------------------------- remove
\* TicketsService.remove: the call arrives and reads the ticket.
remove(p) ==
    /\ pc[p] = "idle"
    /\ \E id \in TicketIds :
          /\ pc' = [pc EXCEPT ![p] = "r_check"]
          /\ local' = [local EXCEPT ![p] =
                [Idle EXCEPT !.op = "remove", !.ticketId = id,
                             !.ticket = findWithShowtimeDetails(id)]]
    /\ result' = [result EXCEPT ![p] = NoResult]
    /\ UNCHANGED <<now, movies, theaters, showtimes, tickets, nextId, lock, tlock>>

\* A Purchased ticket is cancelled first; any other ticket goes to the delete.
remove_check(p) ==
    /\ pc[p] = "r_check"
    /\ LET l == local[p] IN
          IF l.ticket = {} THEN Return(p, NotFound)
          ELSE IF \E t \in l.ticket : t.status = PURCHASED
          THEN Goto(p, "c_load", [l EXCEPT !.ticket = {}])
          ELSE Goto(p, "r_delete", [l EXCEPT !.ticket = {}])
    /\ UNCHANGED <<now, movies, theaters, showtimes, tickets, nextId, lock, tlock>>

\* ticketsRepository.delete(id): DELETE ... WHERE id = $1, outside any
\* transaction; it waits for the row lock of the ticket.
remove_delete(p) ==
    /\ pc[p] = "r_delete"
    /\ LET id == local[p].ticketId IN
          /\ id \in DOMAIN tickets => tlock[id] = NoProc
          /\ tickets' = [t \in DOMAIN tickets \ {id} |-> tickets[t]]
    /\ Return(p, OK)
    /\ UNCHANGED <<now, movies, theaters, showtimes, nextId, lock, tlock>>

\* ------------------------------------------------------------------- update
\* TicketsService.update: the call arrives and reads the ticket, with its showtime.
\* No further call arrives once a counter has fallen MaxDebt below zero.
update(p) ==
    /\ pc[p] = "idle"
    /\ \A s \in ShowtimeIds : showtimes[s].sold_tickets > -MaxDebt
    /\ \E id \in TicketIds :
          /\ pc' = [pc EXCEPT ![p] = "u_validate"]
          /\ local' = [local EXCEPT ![p] =
                [Idle EXCEPT !.op = "update", !.ticketId = id,
                             !.ticket = findWithShowtimeDetails(id)]]
    /\ result' = [result EXCEPT ![p] = NoResult]
    /\ UNCHANGED <<now, movies, theaters, showtimes, tickets, nextId, lock, tlock>>

\* The body as the service hands it to the repository: e-mail lowercased and
\* trimmed, name trimmed, seat trimmed and uppercased, status as given.
CleanUpdate(dto) ==
    [customer_name |-> { trim(n) : n \in dto.customer_name },
     customer_email |-> { trim(toLowerCase(e)) : e \in dto.customer_email },
     seat_number |-> { toUpperCase(trim(seat)) : seat \in dto.seat_number },
     status |-> dto.status]

\* The validations of the service; the seat lookup and the format test are made
\* on the seat as given, and only when it differs from the stored one.
update_validateDto(p, dto) ==
    /\ pc[p] = "u_validate"
    /\ LET l == local[p]
           changed == { seat \in dto.seat_number :
                          \E t \in l.ticket : seat # t.seat_number }
       IN IF l.ticket = {} THEN Return(p, NotFound)
          ELSE IF \E t \in l.ticket : t.showtime.start_time <= now
          THEN Return(p, PastOrOngoing)
          ELSE IF \E seat \in changed : \E t \in l.ticket :
                     findByShowtimeAndSeat(t.showtime.id, seat) # {}
          THEN Return(p, SeatTaken)
          ELSE IF \E seat \in changed : ~isValidSeatNumber(seat)
          THEN Return(p, InvalidSeat)
          ELSE IF \E e \in dto.customer_email : ~isValidEmail(e)
          THEN Return(p, InvalidEmail)
          ELSE Goto(p, "u_write", [l EXCEPT !.saved = {CleanUpdate(dto)}])
    /\ UNCHANGED <<now, movies, theaters, showtimes, tickets, nextId, lock, tlock>>

update_validate(p) ==
    \E dto \in UpdateTicketDtos : update_validateDto(p, dto)

\* The row after UPDATE tickets SET <the given columns> WHERE id = $1.
UpdatedRow(row, data) ==
    [row EXCEPT
       !.customer_name = IF data.customer_name = {} THEN @
                         ELSE CHOOSE n \in data.customer_name : TRUE,
       !.customer_email = IF data.customer_email = {} THEN @
                          ELSE CHOOSE e \in data.customer_email : TRUE,
       !.seat_number = IF data.seat_number = {} THEN @
                       ELSE CHOOSE seat \in data.seat_number : TRUE,
       !.status = IF data.status = {} THEN @
                  ELSE CHOOSE st \in data.status : TRUE]

\* TicketsRepository.update: the UPDATE, outside any transaction, waits for the
\* row lock of the ticket; then findById, which throws when the row is gone.
update_write(p) ==
    /\ pc[p] = "u_write"
    /\ LET id == local[p].ticketId
           data == CHOOSE d \in local[p].saved : TRUE
       IN IF id \notin DOMAIN tickets
          THEN /\ tickets' = tickets
               /\ Return(p, TicketVanished)
          ELSE /\ tlock[id] = NoProc
               /\ tickets' = [tickets EXCEPT ![id] = UpdatedRow(@, data)]
               /\ Return(p, OK)
    /\ UNCHANGED <<now, movies, theaters, showtimes, nextId, lock, tlock>>

UpdateStep(p) ==
    \/ update(p)
    \/ update_validate(p)
    \/ update_write(p)

\* TicketsService.create hands its body to purchaseTicket.
create(p) ==
    \E showtimeId \in ShowtimeIds \cup {UnknownShowtime} : purchaseTicketOn(p, showtimeId)

CancelStep(p) ==
    \/ cancelTicket(p)
    \/ cancelTicket_validate(p)
    \/ cancel_find(p)
    \/ cancel_update(p)
    \/ cancel_decrement(p)
    \/ cancel_commit(p)

RemoveStep(p) ==
    \/ remove(p)
    \/ remove_check(p)
    \/ cancelTicket_load(p)
    \/ remove_delete(p)

\* Purchases and cancellations.
NextSales == \E p \in Workers : PurchaseStep(p) \/ CancelStep(p)

SpecSales == Init /\ [][NextSales]_vars

\* Purchases, cancellations and removals.
Next == \E p \in Workers : PurchaseStep(p) \/ CancelStep(p) \/ RemoveStep(p)

Spec == Init /\ [][Next]_vars

\* One handler: purchases and cancellations one after the other.
NextSequential == PurchaseStep("w1") \/ CancelStep("w1")

SpecSequential == Init /\ [][NextSequential]_vars

\* One handler, while the clock runs.
NextClock == Tick \/ PurchaseStep("w1") \/ CancelStep("w1")

SpecClock == Init /\ [][NextClock]_vars

\* Every operation on tickets, one call after the other.
NextTickets ==
    \/ create("w1")
    \/ PurchaseStep("w1")
    \/ CancelStep("w1")
    \/ RemoveStep("w1")
    \/ UpdateStep("w1")

SpecTickets == Init /\ [][NextTickets]_vars

\* ------------------------------------------------ the capacity boundary
\* Each handler of Procs issues one purchase on showtime "s1", every handler
\* for a seat of its own.
BoundarySeat(p) ==
    CASE p = "w1" -> <<"A","-","1">>
      [] p = "w2" -> <<"a","-","2">>
      [] OTHER    -> <<"B","-","3">>

BoundaryDto(p) ==
    [customer_name |-> <<" ","A","b">>,
     customer_email |-> <<"X","@","b",".","a">>,
     seat_number |-> BoundarySeat(p)]

purchaseOnce(p) ==
    /\ result[p] = NoResult
    /\ purchaseTicketOn(p, "s1")

purchaseOnce_validate(p) == purchaseTicket_validateDto(p, BoundaryDto(p))

NextBoundary ==
    \E p \in Procs : purchaseOnce(p) \/ purchaseOnce_validate(p) \/ PurchaseTransaction(p)

SpecBoundary == Init /\ [][NextBoundary]_vars

\* =============================================================== scheduling
UnknownMovie == "m9"
UnknownTheater == "th9"
NoShowtime == ""

SchedulingConflict == "Conflict: Scheduling conflict"
PastDate == "BadRequest: showtime in the past"
TheaterInactive == "BadRequest: Theater is not active"
InvalidPrice == "BadRequest: Price must be between 0 and 1000"
AlreadyStarted == "BadRequest: showtime that has already started"
HasSoldTickets == "BadRequest: Cannot delete showtime with sold tickets"
UnknownProperty == "EntityPropertyNotFoundError"
ForeignKeyViolation == "QueryFailedError: foreign key"

CreateShowtimeDtos ==
    [movie_id : MovieIds \cup {UnknownMovie},
     theater_id : TheaterIds \cup {UnknownTheater},
     start_time : 0..MaxTime,
     price : {10, 1001}]

\* The database after the migration, with two theaters and the movies in it:
\* no showtime and no ticket yet.
InitSchedule ==
    /\ now = 0
    /\ movies = InitialMovies
    /\ \E a \in BOOLEAN :
          theaters = [th \in TheaterIds |->
                         [capacity |-> IF th = "th1" THEN 2 ELSE 1,
                          is_active |-> IF th = "th1" THEN TRUE ELSE a]]
    /\ showtimes = <<>>
    /\ tickets = <<>>
    /\ nextId = 1
    /\ lock = [s \in ShowtimeIds |-> NoProc]
    /\ tlock = [t \in TicketIds |-> NoProc]
    /\ pc = [p \in Procs |-> "idle"]
    /\ local = [p \in Procs |-> Idle]
    /\ result = [p \in Procs |-> NoResult]

\* addMinutes(startDate, movie.duration)
EndTime(startTime, duration) == startTime + duration

\* An overlap test that counts touching intervals as overlapping.
Overlaps_closed(row, startTime, endTime) ==
    row.start_time <= endTime /\ row.end_time >= startTime

\* showtime.start_time < :endTime AND showtime.end_time > :startTime
Overlaps(row, startTime, endTime) ==
    row.start_time < endTime /\ row.end_time > startTime

\* The rows getOne() may return; null when there is none. The row named by a
\* given excludeId is left out.
findConflictingShowtime(theaterId, startTime, endTime, excludeId) ==
    { s \in DOMAIN showtimes :
        /\ showtimes[s].theater_id = theaterId
        /\ Overlaps(showtimes[s], startTime, endTime)
        /\ (excludeId # NoShowtime => s # excludeId) }

\* Showtimes being created that have not been inserted yet.
PendingShowtimes ==
    Cardinality({ q \in Procs : pc[q] \in {"sc_check", "sc_save"} })

\* ShowtimesService.create: the past-date test, then the movie and the theater.
createShowtimeDto(p, dto) ==
    /\ pc[p] = "idle"
    /\ Cardinality(DOMAIN showtimes) + PendingShowtimes < Cardinality(ShowtimeIds)
    /\ LET fail(outcome) ==
              /\ result' = [result EXCEPT ![p] = [op |-> "createShowtime", outcome |-> outcome]]
              /\ UNCHANGED <<pc, local>>
       IN IF dto.start_time < now THEN fail(PastDate)
          ELSE IF dto.movie_id \notin MovieIds THEN fail(NotFound)
          ELSE IF dto.theater_id \notin DOMAIN theaters THEN fail(NotFound)
          ELSE IF ~theaters[dto.theater_id].is_active THEN fail(TheaterInactive)
          ELSE /\ pc' = [pc EXCEPT ![p] = "sc_check"]
               /\ local' = [local EXCEPT ![p] =
                     [Idle EXCEPT !.op = "createShowtime",
                                  !.saved = {[start_time |-> dto.start_time,
                                              end_time |-> EndTime(dto.start_time,
                                                              movies[dto.movie_id].duration),
                                              price |-> dto.price,
                                              sold_tickets |-> 0,
                                              movie_id |-> dto.movie_id,
                                              theater_id |-> dto.theater_id]}]]
               /\ result' = [result EXCEPT ![p] = NoResult]
    /\ UNCHANGED <<now, movies, theaters, showtimes, tickets, nextId, lock, tlock>>

createShowtime(p) == \E dto \in CreateShowtimeDtos : createShowtimeDto(p, dto)

\* A create that goes to the insert without looking for a conflict.
createShowtime_noCheck(p) ==
    /\ pc[p] = "sc_check"
    /\ Goto(p, "sc_save", local[p])
    /\ UNCHANGED <<now, movies, theaters, showtimes, tickets, nextId, lock, tlock>>

\* findConflictingShowtime(theater_id, startDate, endDate), then the price.
createShowtime_conflict(p) ==
    /\ pc[p] = "sc_check"
    /\ LET data == CHOOSE d \in local[p].saved : TRUE
           conflictingShowtime ==
               findConflictingShowtime(data.theater_id, data.start_time, data.end_time, NoShowtime)
       IN IF conflictingShowtime # {} THEN Return(p, SchedulingConflict)
          ELSE IF data.price < 0 \/ data.price > 1000 THEN Return(p, InvalidPrice)
          ELSE Goto(p, "sc_save", local[p])
    /\ UNCHANGED <<now, movies, theaters, showtimes, tickets, nextId, lock, tlock>>

\* showtimesRepository.create: the INSERT, under a newly generated id.
createShowtime_save(p) ==
    /\ pc[p] = "sc_save"
    /\ \E id \in ShowtimeIds \ DOMAIN showtimes :
          showtimes' = showtimes @@ (id :> (CHOOSE d \in local[p].saved : TRUE))
    /\ Return(p, OK)
    /\ UNCHANGED <<now, movies, theaters, tickets, nextId, lock, tlock>>

CreateShowtimeStep(p) ==
    \/ createShowtime(p)
    \/ createShowtime_conflict(p)
    \/ createShowtime_save(p)

\* ----------------------------------------------------------- updateShowtime
\* Bodies of PATCH /showtimes/:id: every field optional, at least one given.
UpdateShowtimeDtos ==
    { dto \in [movie_id : Optional(MovieIds \cup {UnknownMovie}),
               theater_id : Optional(TheaterIds \cup {UnknownTheater}),
               start_time : Optional(0..MaxTime),
               price : Optional({12})] :
        \E f \in DOMAIN dto : dto[f] # {} }

\* The bodies that give a new start time, a new movie, or both.
RescheduleDtos ==
    { dto \in UpdateShowtimeDtos : dto.start_time # {} \/ dto.movie_id # {} }

\* The showtime with its movie and theater, as the scheduling code reads it.
ScheduledShowtime(id) ==
    [id |-> id,
     start_time |-> showtimes[id].start_time,
     sold_tickets |-> showtimes[id].sold_tickets,
     movie |-> [id |-> showtimes[id].movie_id],
     theater |-> [id |-> showtimes[id].theater_id]]

\* A started test that lets a showtime starting this instant through.
HasStarted_strict(showtime) == showtime.start_time < now

\* new Date(showtime.start_time) <= new Date()
HasStarted(showtime) == showtime.start_time <= now

\* ShowtimesService.update / remove: the call arrives and reads the showtime.
LoadShowtime(p, op) ==
    /\ pc[p] = "idle"
    /\ \E id \in ShowtimeIds :
          local' = [local EXCEPT ![p] =
             [Idle EXCEPT !.op = op, !.showtimeId = id,
                          !.showtime = IF id \in DOMAIN showtimes
                                       THEN {ScheduledShowtime(id)} ELSE {}]]
    /\ result' = [result EXCEPT ![p] = NoResult]
    /\ UNCHANGED <<now, movies, theaters, showtimes, tickets, nextId, lock, tlock>>

updateShowtime(p) ==
    /\ LoadShowtime(p, "updateShowtime")
    /\ pc' = [pc EXCEPT ![p] = "su_validate"]

\* The validations of ShowtimesService.update and the updateData it builds: the
\* body as given, plus the start and end times when the movie or the start
\* time is given.
updateShowtime_validateDto(p, dto) ==
    /\ pc[p] = "su_validate"
    /\ LET l == local[p]
           existingShowtime == CHOOSE st \in l.showtime : TRUE
           rescheduled == dto.movie_id # {} \/ dto.start_time # {}
           movieId == IF dto.movie_id # {} THEN CHOOSE m \in dto.movie_id : TRUE
                      ELSE existingShowtime.movie.id
           startTime == IF dto.start_time # {} THEN CHOOSE t \in dto.start_time : TRUE
                        ELSE existingShowtime.start_time
           endTime == EndTime(startTime, movies[movieId].duration)
           theaterId == IF dto.theater_id # {} THEN CHOOSE th \in dto.theater_id : TRUE
                        ELSE existingShowtime.theater.id
           updateData == [movie_id |-> dto.movie_id,
                          theater_id |-> dto.theater_id,
                          price |-> dto.price,
                          start_time |-> IF rescheduled THEN {startTime} ELSE {},
                          end_time |-> IF rescheduled THEN {endTime} ELSE {}]
       IN IF l.showtime = {} THEN Return(p, NotFound)
          ELSE IF HasStarted(existingShowtime) THEN Return(p, AlreadyStarted)
          ELSE IF \E t \in dto.start_time : t < now THEN Return(p, PastDate)
          ELSE IF rescheduled /\ movieId \notin MovieIds THEN Return(p, NotFound)
          ELSE IF rescheduled /\
                  findConflictingShowtime(theaterId, startTime, endTime, l.showtimeId) # {}
          THEN Return(p, SchedulingConflict)
          ELSE IF \E th \in dto.theater_id : th \notin DOMAIN theaters
          THEN Return(p, NotFound)
          ELSE IF \E th \in dto.theater_id : ~theaters[th].is_active
          THEN Return(p, TheaterInactive)
          ELSE Goto(p, "su_write", [l EXCEPT !.saved = {updateData}])
    /\ UNCHANGED <<now, movies, theaters, showtimes, tickets, nextId, lock, tlock>>

updateShowtime_validate(p) ==
    \E dto \in UpdateShowtimeDtos : updateShowtime_validateDto(p, dto)

\* An update that gives a new start time, a new movie, or both.
reschedule_validate(p) ==
    \E dto \in RescheduleDtos : updateShowtime_validateDto(p, dto)

\* The row after UPDATE showtimes SET <the given columns> WHERE id = $1.
UpdatedShowtime(row, data) ==
    [row EXCEPT
       !.movie_id = IF data.movie_id = {} THEN @ ELSE CHOOSE m \in data.movie_id : TRUE,
       !.theater_id = IF data.theater_id = {} THEN @ ELSE CHOOSE th \in data.theater_id : TRUE,
       !.price = IF data.price = {} THEN @ ELSE CHOOSE x \in data.price : TRUE,
       !.start_time = IF data.start_time = {} THEN @ ELSE CHOOSE t \in data.start_time : TRUE,
       !.end_time = IF data.end_time = {} THEN @ ELSE CHOOSE t \in data.end_time : TRUE]

\* ShowtimesRepository.update: repository.update(id, showtimeData), then
\* findById. movie_id and theater_id are not properties of the Showtime entity
\* (its properties are movie and theater): with one of them in showtimeData the
\* ORM either rejects the unknown property or writes the join column. The
\* UPDATE waits for the row lock of the showtime.
updateShowtime_write(p) ==
    /\ pc[p] = "su_write"
    /\ LET id == local[p].showtimeId
           data == CHOOSE d \in local[p].saved : TRUE
       IN \/ /\ data.movie_id # {} \/ data.theater_id # {}
             /\ showtimes' = showtimes
             /\ Return(p, UnknownProperty)
          \/ /\ id \notin DOMAIN showtimes
             /\ showtimes' = showtimes
             /\ Return(p, ShowtimeGone)
          \/ /\ id \in DOMAIN showtimes
             /\ lock[id] = NoProc
             /\ showtimes' = [showtimes EXCEPT ![id] = UpdatedShowtime(@, data)]
             /\ Return(p, OK)
    /\ UNCHANGED <<now, movies, theaters, tickets, nextId, lock, tlock>>

\* ----------------------------------------------------------- removeShowtime
removeShowtime(p) ==
    /\ LoadShowtime(p, "removeShowtime")
    /\ pc' = [pc EXCEPT ![p] = "sd_check"]

\* The guards of ShowtimesService.remove.
removeShowtime_check(p) ==
    /\ pc[p] = "sd_check"
    /\ LET l == local[p] IN
          IF l.showtime = {} THEN Return(p, NotFound)
          ELSE IF \E st \in l.showtime : st.sold_tickets > 0 THEN Return(p, HasSoldTickets)
          ELSE IF \E st \in l.showtime : HasStarted(st) THEN Return(p, AlreadyStarted)
          ELSE Goto(p, "sd_delete", l)
    /\ UNCHANGED <<now, movies, theaters, showtimes, tickets, nextId, lock, tlock>>

\* A foreign key that is never checked.
ReferencedByTicket_unchecked(id) == FALSE

\* FOREIGN KEY ("showtime_id") REFERENCES "showtimes"("id") ON DELETE NO ACTION:
\* some ticket row, of whatever status, refers to the showtime.
ReferencedByTicket(id) == \E t \in DOMAIN tickets : tickets[t].showtime_id = id

\* showtimesRepository.delete(id): DELETE ... WHERE id = $1 waits for the row
\* lock and fails on the foreign key while a ticket refers to the showtime.
removeShowtime_delete(p) ==
    /\ pc[p] = "sd_delete"
    /\ LET id == local[p].showtimeId IN
          IF id \notin DOMAIN showtimes
          THEN showtimes' = showtimes /\ Return(p, OK)
          ELSE /\ lock[id] = NoProc
               /\ IF ReferencedByTicket(id)
                  THEN showtimes' = showtimes /\ Return(p, ForeignKeyViolation)
                  ELSE /\ showtimes' = [s \in DOMAIN showtimes \ {id} |-> showtimes[s]]
                       /\ Return(p, OK)
    /\ UNCHANGED <<now, movies, theaters, tickets, nextId, lock, tlock>>

RemoveShowtimeStep(p) ==
    \/ removeShowtime(p)
    \/ removeShowtime_check(p)
    \/ removeShowtime_delete(p)

\* Showtimes created, rescheduled and deleted by one call after the other,
\* while the clock runs.
NextSchedule ==
    \/ Tick
    \/ CreateShowtimeStep("w1")
    \/ updateShowtime("w1")
    \/ reschedule_validate("w1")
    \/ updateShowtime_write("w1")
    \/ RemoveShowtimeStep("w1")

SpecSchedule == InitSchedule /\ [][NextSchedule]_vars

\* The same calls with the clock standing still.
NextDetector ==
    \/ CreateShowtimeStep("w1")
    \/ updateShowtime("w1")
    \/ reschedule_validate("w1")
    \/ updateShowtime_write("w1")
    \/ RemoveShowtimeStep("w1")

SpecDetector == InitSchedule /\ [][NextDetector]_vars

\* A showtime is moved to another theater, among other updates, by one call
\* after the other with the clock standing still.
NextRelocate ==
    \/ CreateShowtimeStep("w1")
    \/ updateShowtime("w1")
    \/ updateShowtime_validate("w1")
    \/ updateShowtime_write("w1")

SpecRelocate == InitSchedule /\ [][NextRelocate]_vars

\* One handler creates showtimes while another creates and reschedules them,
\* with the clock standing still.
NextConcurrentSchedule ==
    \/ CreateShowtimeStep("w1")
    \/ CreateShowtimeStep("w2")
    \/ updateShowtime("w2")
    \/ reschedule_validate("w2")
    \/ updateShowtime_write("w2")

SpecConcurrentSchedule == InitSchedule /\ [][NextConcurrentSchedule]_vars

\* ------------------------------------------------- showtimes with tickets
\* The database with two showtimes in it, created earlier: s1 of th1 starts at
\* 1, s2 of th2 has started; both theaters are active and no ticket is sold.
InitBooking ==
    /\ now = 0
    /\ movies = InitialMovies
    /\ theaters = [th \in TheaterIds |->
                      [capacity |-> IF th = "th1" THEN 2 ELSE 1, is_active |-> TRUE]]
    /\ showtimes =
          [s \in ShowtimeIds |->
              [start_time |-> IF s = "s1" THEN 1 ELSE 0,
               end_time |-> IF s = "s1" THEN EndTime(1, movies["m1"].duration)
                            ELSE EndTime(0, movies["m2"].duration),
               price |-> IF s = "s1" THEN 10 ELSE 12,
               sold_tickets |-> 0,
               movie_id |-> IF s = "s1" THEN "m1" ELSE "m2",
               theater_id |-> IF s = "s1" THEN "th1" ELSE "th2"]]
    /\ tickets = <<>>
    /\ nextId = 1
    /\ lock = [s \in ShowtimeIds |-> NoProc]
    /\ tlock = [t \in TicketIds |-> NoProc]
    /\ pc = [p \in Procs |-> "idle"]
    /\ local = [p \in Procs |-> Idle]
    /\ result = [p \in Procs |-> NoResult]

\* Tickets bought and cancelled and showtimes deleted, by one call after the
\* other while the clock runs.
NextBooking ==
    \/ Tick
    \/ PurchaseStep("w1")
    \/ CancelStep("w1")
    \/ RemoveShowtimeStep("w1")

SpecBooking == InitBooking /\ [][NextBooking]_vars

\* Tickets bought, showtimes updated and deleted, by one call after the other
\* while the clock runs.
NextFrozen ==
    \/ Tick
    \/ PurchaseStep("w1")
    \/ updateShowtime("w1")
    \/ updateShowtime_validate("w1")
    \/ updateShowtime_write("w1")
    \/ RemoveShowtimeStep("w1")

SpecFrozen == InitBooking /\ [][NextFrozen]_vars

\* Two handlers buy tickets while a third deletes showtimes.
NextDeleteRace ==
    \/ \E p \in Workers : PurchaseStep(p)
    \/ RemoveShowtimeStep("w3")

SpecDeleteRace == InitBooking /\ [][NextDeleteRace]_vars

\* -------------------------------------------------------------- updateMovie
InvalidDuration == "BadRequest: Movie duration must be between 1 and 600 minutes"

\* Bodies of PATCH /movies/:id, as far as the duration goes: a new duration, or
\* other fields only.
UpdateMovieDtos == [duration : Optional({1, 2, 601})]

\* MoviesService.update: findById, validateDuration when a duration is given,
\* then moviesRepository.update(id, updateData).
updateMovieDto(p, id, dto) ==
    /\ pc[p] = "idle"
    /\ LET return(outcome) ==
              result' = [result EXCEPT ![p] = [op |-> "updateMovie", outcome |-> outcome]]
       IN IF id \notin DOMAIN movies
          THEN movies' = movies /\ return(NotFound)
          ELSE IF \E d \in dto.duration : d < 1 \/ d > 600
          THEN movies' = movies /\ return(InvalidDuration)
          ELSE /\ movies' = [movies EXCEPT ![id].duration =
                                IF dto.duration = {} THEN @
                                ELSE CHOOSE d \in dto.duration : TRUE]
               /\ return(OK)
    /\ UNCHANGED <<now, theaters, showtimes, tickets, nextId, lock, tlock, pc, local>>

updateMovie(p) ==
    \E id \in MovieIds \cup {UnknownMovie} : \E dto \in UpdateMovieDtos :
        updateMovieDto(p, id, dto)

\* Showtimes created and movies updated, by one call after the other with the
\* clock standing still.
NextMovies ==
    \/ CreateShowtimeStep("w1")
    \/ updateMovie("w1")

SpecMovies == InitSchedule /\ [][NextMovies]_vars

\* ------------------------------------------------------------ updateTheater
InvalidCapacity == "BadRequest: Theater capacity must be between 1 and 1000 seats"
CapacityBelowSold == "Conflict: Cannot reduce capacity below the number of sold tickets"

\* Bodies of PATCH /theaters/:id, as far as the capacity goes: a new capacity
\* (at least 1, by @Min(1)), or other fields only.
UpdateTheaterDtos == [capacity : Optional((1..MaxCapacity) \cup {1001})]

\* TheatersService.update: the call arrives and reads the theater.
updateTheater(p) ==
    /\ pc[p] = "idle"
    /\ \E id \in TheaterIds \cup {UnknownTheater} : \E dto \in UpdateTheaterDtos :
          /\ result' = [result EXCEPT ![p] =
                IF id \in DOMAIN theaters THEN NoResult
                ELSE [op |-> "updateTheater", outcome |-> NotFound]]
          /\ pc' = [pc EXCEPT ![p] = IF id \in DOMAIN theaters THEN "tu_validate" ELSE "idle"]
          /\ local' = [local EXCEPT ![p] =
                IF id \in DOMAIN theaters
                THEN [Idle EXCEPT !.op = "updateTheater",
                                  !.saved = {[id |-> id,
                                              capacity |-> dto.capacity,
                                              existingCapacity |-> theaters[id].capacity]}]
                ELSE Idle]
    /\ UNCHANGED <<now, movies, theaters, showtimes, tickets, nextId, lock, tlock>>

\* A reduction test that also refuses a capacity equal to the tickets sold.
hasShowtimesExceedingCapacity_orEqual(theaterId, newCapacity) ==
    \E s \in DOMAIN showtimes :
        showtimes[s].theater_id = theaterId /\ showtimes[s].sold_tickets >= newCapacity

\* validateCapacityReduction: findWithShowtimes(theaterId), then
\* showtimes.some((showtime) => showtime.sold_tickets > newCapacity)
hasShowtimesExceedingCapacity(theaterId, newCapacity) ==
    \E s \in DOMAIN showtimes :
        showtimes[s].theater_id = theaterId /\ showtimes[s].sold_tickets > newCapacity

\* validateCapacity, validateCapacityReduction when the capacity goes down,
\* then theatersRepository.update(id, updateData).
updateTheater_validate(p) ==
    /\ pc[p] = "tu_validate"
    /\ LET data == CHOOSE d \in local[p].saved : TRUE IN
          IF \E c \in data.capacity : c < 1 \/ c > 1000
          THEN theaters' = theaters /\ Return(p, InvalidCapacity)
          ELSE IF \E c \in data.capacity :
                     /\ c < data.existingCapacity
                     /\ hasShowtimesExceedingCapacity(data.id, c)
          THEN theaters' = theaters /\ Return(p, CapacityBelowSold)
          ELSE /\ theaters' = [theaters EXCEPT ![data.id].capacity =
                                  IF data.capacity = {} THEN @
                                  ELSE CHOOSE c \in data.capacity : TRUE]
               /\ Return(p, OK)
    /\ UNCHANGED <<now, movies, showtimes, tickets, nextId, lock, tlock>>

UpdateTheaterStep(p) ==
    \/ updateTheater(p)
    \/ updateTheater_validate(p)

\* Tickets bought and cancelled and theaters updated, by one call after the
\* other with the clock standing still.
NextTheaters ==
    \/ PurchaseStep("w1")
    \/ CancelStep("w1")
    \/ UpdateTheaterStep("w1")

SpecTheaters == InitBooking /\ [][NextTheaters]_vars

\* The same calls, and showtimes updated as well.
NextCapacity ==
    \/ PurchaseStep("w1")
    \/ CancelStep("w1")
    \/ UpdateTheaterStep("w1")
    \/ updateShowtime("w1")
    \/ updateShowtime_validate("w1")
    \/ updateShowtime_write("w1")

SpecCapacity == InitBooking /\ [][NextCapacity]_vars

\* --------------------------------------------------------- read-only queries
\* An availability that reports sold out only below zero available seats.
Availability_strict(showtime) ==
    LET availableSeats == showtime.theater.capacity - showtime.sold_tickets
    IN  [showtime_id |-> showtime.id,
         total_capacity |-> showtime.theater.capacity,
         sold_tickets |-> showtime.sold_tickets,
         available_seats |-> availableSeats,
         is_sold_out |-> availableSeats < 0]

\* The ShowtimeAvailabilityDto that getAvailability builds from the showtime.
Availability(showtime) ==
    LET availableSeats == showtime.theater.capacity - showtime.sold_tickets
    IN  [showtime_id |-> showtime.id,
         total_capacity |-> showtime.theater.capacity,
         sold_tickets |-> showtime.sold_tickets,
         available_seats |-> availableSeats,
         is_sold_out |-> availableSeats <= 0]

\* A query of handler p arrives for some showtime id.
Query(p, op, label) ==
    /\ pc[p] = "idle"
    /\ \E id \in ShowtimeIds \cup {UnknownShowtime} :
          local' = [local EXCEPT ![p] = [Idle EXCEPT !.op = op, !.showtimeId = id]]
    /\ pc' = [pc EXCEPT ![p] = label]
    /\ result' = [result EXCEPT ![p] = NoResult]
    /\ UNCHANGED <<now, movies, theaters, showtimes, tickets, nextId, lock, tlock>>

\* The query of handler p returns a value.
ReturnValue(p, value) ==
    /\ pc' = [pc EXCEPT ![p] = "idle"]
    /\ local' = [local EXCEPT ![p] = Idle]
    /\ result' = [result EXCEPT ![p] =
           [op |-> local[p].op, outcome |-> OK, value |-> value]]

getAvailability(p) == Query(p, "getAvailability", "q_availability")

\* ShowtimesService.getAvailability: findWithRelations, a plain SELECT, then
\* the projection.
getAvailability_read(p) ==
    /\ pc[p] = "q_availability"
    /\ LET showtime == findWithRelations(local[p].showtimeId) IN
          IF showtime = {} THEN Return(p, NotFound)
          ELSE ReturnValue(p, Availability(CHOOSE st \in showtime : TRUE))
    /\ UNCHANGED <<now, movies, theaters, showtimes, tickets, nextId, lock, tlock>>

\* A listing that takes the tickets of a showtime whatever their status.
OccupiedRows_anyStatus(showtimeId) ==
    { t \in DOMAIN tickets : tickets[t].showtime_id = showtimeId }

\* The rows of find({where: {showtime: {id}, status: PURCHASED}}).
OccupiedRows(showtimeId) ==
    { t \in DOMAIN tickets :
        tickets[t].showtime_id = showtimeId /\ tickets[t].status = PURCHASED }

\* tickets.map((ticket) => ticket.seat_number): how often each seat number is
\* in the list, and the length of the list.
OccupiedSeatsList(showtimeId) ==
    LET rows == OccupiedRows(showtimeId)
    IN  [count |-> [seat \in { tickets[t].seat_number : t \in rows } |->
                       Cardinality({ t \in rows : tickets[t].seat_number = seat })],
         length |-> Cardinality(rows)]

listOccupiedSeats(p) == Query(p, "getOccupiedSeats", "q_seats_check")

\* TicketsService.getOccupiedSeats: showtimesRepository.findById first.
listOccupiedSeats_check(p) ==
    /\ pc[p] = "q_seats_check"
    /\ IF local[p].showtimeId \notin DOMAIN showtimes
       THEN Return(p, NotFound)
       ELSE Goto(p, "q_seats_read", local[p])
    /\ UNCHANGED <<now, movies, theaters, showtimes, tickets, nextId, lock, tlock>>

\* TicketsRepository.getOccupiedSeats: a plain SELECT.
listOccupiedSeats_read(p) ==
    /\ pc[p] = "q_seats_read"
    /\ ReturnValue(p, OccupiedSeatsList(local[p].showtimeId))
    /\ UNCHANGED <<now, movies, theaters, showtimes, tickets, nextId, lock, tlock>>

QueryStep(p) ==
    \/ getAvailability(p)
    \/ getAvailability_read(p)
    \/ listOccupiedSeats(p)
    \/ listOccupiedSeats_check(p)
    \/ listOccupiedSeats_read(p)

\* One handler buys and cancels tickets while another one asks for the
\* availability and the occupied seats.
NextQueries ==
    \/ PurchaseStep("w1")
    \/ CancelStep("w1")
    \/ QueryStep("w3")

SpecQueries == Init /\ [][NextQueries]_vars

\* ------------------------------------------------------------ ticket prices
\* The bodies of PATCH /showtimes/:id that give a new price and nothing else.
RepriceDtos ==
    { dto \in UpdateShowtimeDtos :
        dto.price # {} /\ dto.movie_id = {} /\ dto.theater_id = {} /\ dto.start_time = {} }

reprice_validate(p) ==
    \E dto \in RepriceDtos : updateShowtime_validateDto(p, dto)

\* The bodies of PATCH /tickets/:id that give a new seat and nothing else.
ReseatDtos ==
    { dto \in UpdateTicketDtos :
        dto.seat_number # {} /\ dto.status = {} }

reseat_validate(p) ==
    \E dto \in ReseatDtos : update_validateDto(p, dto)

\* One handler buys and cancels tickets and changes their seats while another
\* changes the price of showtimes.
NextPrices ==
    \/ PurchaseStep("w1")
    \/ CancelStep("w1")
    \/ update("w1")
    \/ reseat_validate("w1")
    \/ update_write("w1")
    \/ updateShowtime("w2")
    \/ reprice_validate("w2")
    \/ updateShowtime_write("w2")

SpecPrices == InitBooking /\ [][NextPrices]_vars

\* ---------------------------------------------------- two showtimes on sale
\* The database with two showtimes that have not started: s1 of th1 and s2 of
\* th2, one seat each, no ticket sold.
InitParallel ==
    /\ now = 0
    /\ movies = InitialMovies
    /\ theaters = [th \in TheaterIds |-> [capacity |-> 1]]
    /\ showtimes =
          [s \in ShowtimeIds |->
              [start_time |-> 1,
               price |-> IF s = "s1" THEN 10 ELSE 12,
               sold_tickets |-> 0,
               theater_id |-> IF s = "s1" THEN "th1" ELSE "th2"]]
    /\ tickets = <<>>
    /\ nextId = 1
    /\ lock = [s \in ShowtimeIds |-> NoProc]
    /\ tlock = [t \in TicketIds |-> NoProc]
    /\ pc = [p \in Procs |-> "idle"]
    /\ local = [p \in Procs |-> Idle]
    /\ result = [p \in Procs |-> NoResult]

\* Two handlers buy tickets of the two showtimes, every purchase of a handler
\* asking for the same seat, and one of them cancels tickets as well.
NextParallel ==
    \/ \E p \in Workers :
          \/ purchaseTicket(p)
          \/ purchaseOnce_validate(p)
          \/ PurchaseTransaction(p)
    \/ CancelStep("w2")

SpecParallel == InitParallel /\ [][NextParallel]_vars

\* ------------------------------------------------------------ lock timeouts
\* What the caller of purchaseTicket gets when the store gives up a lock
\* request: the driver's QueryFailedError, which no code catches.
PurchaseContention == "QueryFailedError: canceling statement due to lock timeout"

\* What the caller of cancelTicket gets: the catch block of the service turns
\* the driver's error into a BadRequestException with the same message.
CancelContention == "BadRequest: canceling statement due to lock timeout"

\* The store gives up the SELECT ... FOR UPDATE of a purchase that is waiting
\* for the row lock of its showtime; the transaction is rolled back.
purchase_lockTimeout(p) ==
    /\ pc[p] = "p_lock"
    /\ local[p].showtimeId \in DOMAIN showtimes
    /\ ~LockGranted(p, local[p].showtimeId)
    /\ Goto(p, "rollback", [local[p] EXCEPT !.err = PurchaseContention])
    /\ UNCHANGED <<now, movies, theaters, showtimes, tickets, nextId, lock, tlock>>

\* The store gives up an UPDATE of a cancellation that is waiting for the row
\* lock of its ticket or of its showtime; the transaction is rolled back.
cancel_lockTimeout(p) ==
    /\ \/ /\ pc[p] = "c_update"
          /\ local[p].ticketId \in DOMAIN tickets
          /\ tlock[local[p].ticketId] # NoProc
       \/ /\ pc[p] = "c_decrement"
          /\ \E t \in local[p].ticket :
                t.showtime.id \in DOMAIN showtimes /\ lock[t.showtime.id] # NoProc
    /\ Goto(p, "rollback", [local[p] EXCEPT !.err = CancelContention])
    /\ UNCHANGED <<now, movies, theaters, showtimes, tickets, nextId, lock, tlock>>

\* Two handlers buy and cancel tickets, every purchase of a handler asking for
\* the same seat, against a store that may give up a lock request.
NextContention ==
    \E p \in Workers :
        \/ purchaseTicket(p)
        \/ purchaseOnce_validate(p)
        \/ PurchaseTransaction(p)
        \/ CancelStep(p)
        \/ purchase_lockTimeout(p)
        \/ cancel_lockTimeout(p)

SpecContention == Init /\ [][NextContention]_vars

\* -------------------------------------------------------------- seat format
\* POST /tickets/purchase/:showtimeId arrives with its body: the service reads
\* the showtime; the body is kept as it was given.
purchaseRequest(p) ==
    /\ pc[p] = "idle"
    /\ nextId + PendingPurchases <= MaxTickets
    /\ \E showtimeId \in ShowtimeIds : \E dto \in PurchaseTicketDtos :
          local' = [local EXCEPT ![p] =
             [Idle EXCEPT !.op = "purchaseTicket", !.showtimeId = showtimeId,
                          !.showtime = findWithRelations(showtimeId),
                          !.ticketData = dto]]
    /\ pc' = [pc EXCEPT ![p] = "p_validate"]
    /\ result' = [result EXCEPT ![p] = NoResult]
    /\ UNCHANGED <<now, movies, theaters, showtimes, tickets, nextId, lock, tlock>>

\* The validations of the service on the body that arrived.
purchaseRequest_validate(p) ==
    purchaseTicket_validateDto(p, local[p].ticketData)

\* One handler buys tickets, one call after the other.
NextSeatFormat ==
    \/ purchaseRequest("w1")
    \/ purchaseRequest_validate("w1")
    \/ PurchaseTransaction("w1")

SpecSeatFormat == Init /\ [][NextSeatFormat]_vars

\* ----------------------------------------------------------------- progress
\* The steps by which handler p goes on with a call that has begun.
Continue(p) ==
    \/ purchaseOnce_validate(p)
    \/ PurchaseTransaction(p)
    \/ cancelTicket_validate(p)
    \/ cancel_find(p)
    \/ cancel_update(p)
    \/ cancel_decrement(p)
    \/ cancel_commit(p)

\* A handler that has begun a call goes on with it, and the store grants a
\* row lock to every waiting statement in its turn: a statement that could be
\* granted its lock again and again is granted it.
FairParallel == \A p \in Workers : SF_vars(Continue(p))

SpecProgress == InitParallel /\ [][NextParallel]_vars /\ FairParallel

\* ================================================================== claims
Capacity(s) == theaters[showtimes[s].theater_id].capacity

PurchasedTickets(s) ==
    { t \in DOMAIN tickets : tickets[t].showtime_id = s /\ tickets[t].status = PURCHASED }

Outcome(p, op, outcome) == result[p] = [op |-> op, outcome |-> outcome]

\* C1: under any interleaving of concurrent purchaseTicket calls, the number of
\* Purchased tickets of a showtime never exceeds the capacity of its theater.
NoOversell ==
    \A s \in ShowtimeIds : Cardinality(PurchasedTickets(s)) <= Capacity(s)

\* A showtime is full, one purchase has committed and another one, which had
\* to wait for the lock, is being turned away as sold out.
NoOversell_witness ==
    \E s \in ShowtimeIds : \E p \in Procs : \E q \in Procs \ {p} :
        /\ Cardinality(PurchasedTickets(s)) = Capacity(s)
        /\ pc[p] = "rollback" /\ local[p].err = SoldOut /\ local[p].showtimeId = s
        /\ Outcome(q, "purchaseTicket", OK)

\* C2: under any interleaving of purchaseTicket and cancelTicket calls, no two
\* Purchased tickets of one showtime have the same seat_number.
NoDuplicateSeats ==
    \A t \in DOMAIN tickets : \A u \in DOMAIN tickets :
        ( /\ t # u
          /\ tickets[t].showtime_id = tickets[u].showtime_id
          /\ tickets[t].status = PURCHASED
          /\ tickets[u].status = PURCHASED )
        => tickets[t].seat_number # tickets[u].seat_number

\* A seat was sold, cancelled and sold again, and a further purchase of it is
\* being refused as occupied.
NoDuplicateSeats_witness ==
    \E t \in DOMAIN tickets : \E u \in DOMAIN tickets : \E p \in Workers :
        /\ tickets[t].showtime_id = tickets[u].showtime_id
        /\ tickets[t].seat_number = tickets[u].seat_number
        /\ tickets[t].status = CANCELLED
        /\ tickets[u].status = PURCHASED
        /\ pc[p] = "rollback" /\ local[p].err = SeatTaken
        /\ local[p].ticketData.seat_number = tickets[u].seat_number

\* C3: after every committed purchase or cancel transaction, sold_tickets of a
\* showtime equals the number of its tickets whose status is Purchased.
CounterConsistency ==
    \A s \in ShowtimeIds : showtimes[s].sold_tickets = countTicketsByShowtime(s)

\* Handler p is inside the critical section of a purchase or cancel on showtime
\* s: it has read the state it decides on and has not yet committed or aborted.
InCriticalSection(p, s) ==
    \/ /\ local[p].op = "purchaseTicket"
       /\ local[p].showtimeId = s
       /\ \/ pc[p] \in {"p_seat", "p_save", "p_increment", "p_commit"}
          \/ pc[p] = "rollback" /\ local[p].err \in {SoldOut, SeatTaken}
    \/ /\ local[p].op \in {"cancelTicket", "remove"}
       /\ \E t \in local[p].ticket : t.showtime.id = s
       /\ \/ pc[p] \in {"c_update", "c_decrement", "c_commit"}
          \/ pc[p] = "rollback" /\ local[p].err = InvalidTicketState

\* C4: for any showtime, at most one purchase or cancel transaction is inside
\* its critical section at any time.
MutualExclusion ==
    \A s \in ShowtimeIds :
        Cardinality({ p \in Procs : InCriticalSection(p, s) }) <= 1

\* C5: whenever a purchase has made its sold-out or seat-taken decision and has
\* not finished, it holds the showtime's lock, the showtime it decided on is the
\* committed row as it stands, and its seat decision agrees with the committed
\* tickets.
CheckAfterLock ==
    \A p \in Procs :
        LET l == local[p]
            decidedCapacity ==
                \/ pc[p] \in {"p_seat", "p_save"}
                \/ pc[p] = "rollback" /\ l.err \in {SoldOut, SeatTaken}
            seatNow == findByShowtimeAndSeat(l.showtimeId, l.ticketData.seat_number)
        IN  /\ decidedCapacity =>
                /\ lock[l.showtimeId] = p
                /\ l.showtime = findWithRelations(l.showtimeId)
            /\ pc[p] = "p_save" => seatNow = {}
            /\ (pc[p] = "rollback" /\ l.err = SeatTaken) => (seatNow # {} /\ l.ticket = seatNow)
            /\ (pc[p] = "rollback" /\ l.err = SoldOut) =>
                  showtimes[l.showtimeId].sold_tickets >= Capacity(l.showtimeId)

\* A purchase holds the lock and has read a sold_tickets that a transaction
\* committed after another waiting purchase took its own, now stale, look at the
\* showtime.
CheckAfterLock_witness ==
    \E p \in Workers : \E q \in Workers \ {p} :
        /\ pc[p] = "p_seat"
        /\ pc[q] = "p_lock"
        /\ local[q].showtimeId = local[p].showtimeId
        /\ local[q].showtime # local[p].showtime
        /\ \E t \in DOMAIN tickets : tickets[t].status = CANCELLED

Purchases(outcome) == { p \in Procs : Outcome(p, "purchaseTicket", outcome) }

\* C6: with sold_tickets = 0 and more handlers than seats, each buying a seat of
\* its own on the same future showtime, sold_tickets never exceeds the capacity
\* and, once all have returned, exactly capacity-many purchases succeeded, the
\* others were refused as sold out, and sold_tickets equals the capacity.
CapacityBoundary ==
    LET C == Capacity("s1")
        N == Cardinality(Procs)
    IN  N > C =>
          /\ showtimes["s1"].sold_tickets <= C
          /\ (\A p \in Procs : pc[p] = "idle" /\ result[p] # NoResult) =>
                /\ Cardinality(Purchases(OK)) = C
                /\ Cardinality(Purchases(SoldOut)) = N - C
                /\ showtimes["s1"].sold_tickets = C
                /\ Cardinality(PurchasedTickets("s1")) = C

\* Capacity 2, three purchases for three seats: all have returned, two succeeded.
CapacityBoundary_witness ==
    /\ Capacity("s1") = 2
    /\ Cardinality(Procs) = 3
    /\ \A p \in Procs : pc[p] = "idle" /\ result[p] # NoResult
    /\ Cardinality(Purchases(OK)) = 2
    /\ Cardinality(Purchases(SoldOut)) = 1

\* C7: under any interleaving of purchaseTicket and cancelTicket calls, racing
\* cancels of one ticket included, the number of Purchased tickets of a showtime
\* never exceeds the capacity of its theater.
NoOversellWithCancels ==
    \A s \in ShowtimeIds : countTicketsByShowtime(s) <= Capacity(s)

\* C8: of the cancelTicket calls aimed at one ticket only one succeeds: a cancel
\* that commits finds the ticket Purchased, turns it Cancelled and takes exactly
\* one off sold_tickets, so the counter drops once per ticket.
CancelSucceedsOnce ==
    [][ \A p \in Procs :
          (pc[p] = "c_commit" /\ pc'[p] # "c_commit") =>
             LET id == local[p].ticketId
                 s == tickets[id].showtime_id
             IN  /\ tickets[id].status = PURCHASED
                 /\ tickets'[id].status = CANCELLED
                 /\ showtimes'[s].sold_tickets = showtimes[s].sold_tickets - 1 ]_vars

\* C9: sold_tickets is never negative, under any interleaving of purchaseTicket,
\* cancelTicket and remove calls.
SoldTicketsNonNegative ==
    \A s \in ShowtimeIds : showtimes[s].sold_tickets >= 0

\* C10: no step of a purchaseTicket call other than its commit changes a ticket
\* or a showtime, and when the call fails as past/ongoing, sold out or seat taken
\* the tables are as that step found them and the handler holds no lock.
FailedPurchaseNoSideEffects ==
    [][ \A p \in Procs :
          /\ (local[p].op = "purchaseTicket" /\ pc'[p] # pc[p] /\ pc[p] # "p_commit") =>
                (tickets' = tickets /\ showtimes' = showtimes)
          /\ ( /\ result'[p] # result[p]
               /\ result'[p].op = "purchaseTicket"
               /\ result'[p].outcome \in {PastOrOngoing, SoldOut, SeatTaken} ) =>
                /\ tickets' = tickets
                /\ showtimes' = showtimes
                /\ \A s \in ShowtimeIds : lock'[s] # p
                /\ \A t \in TicketIds : tlock'[t] # p ]_vars

\* One purchase was refused as sold out and one as seat taken (each after it
\* had taken the lock) and one as past or ongoing; no lock is held.
FailedPurchaseNoSideEffects_witness ==
    /\ \E p \in Workers : \E q \in Workers \ {p} :
          /\ Outcome(p, "purchaseTicket", SoldOut)
          /\ Outcome(q, "purchaseTicket", SeatTaken)
    /\ \A s \in ShowtimeIds : lock[s] = NoProc
    /\ \E t \in DOMAIN tickets : tickets[t].status = CANCELLED

\* C11: a purchaseTicket call that gets as far as its transaction ends as the
\* committed rows dictate, in this order: sold out when sold_tickets >= capacity,
\* whether or not the seat is occupied; otherwise seat taken when a Purchased
\* ticket of the showtime has the normalised seat; otherwise it succeeds,
\* inserting exactly one Purchased ticket on that seat and adding exactly 1 to
\* sold_tickets of that showtime alone.
PurchaseOutcomeOrder ==
    [][ \A p \in Procs :
          ( /\ result'[p] # result[p]
            /\ result'[p].op = "purchaseTicket"
            /\ result'[p].outcome \in {OK, SoldOut, SeatTaken} ) =>
             LET s == local[p].showtimeId
                 seat == local[p].ticketData.seat_number
                 outcome == result'[p].outcome
             IN  IF showtimes[s].sold_tickets >= Capacity(s)
                 THEN outcome = SoldOut /\ tickets' = tickets /\ showtimes' = showtimes
                 ELSE IF findByShowtimeAndSeat(s, seat) # {}
                 THEN outcome = SeatTaken /\ tickets' = tickets /\ showtimes' = showtimes
                 ELSE /\ outcome = OK
                      /\ \E id \in TicketIds \ DOMAIN tickets :
                            /\ DOMAIN tickets' = DOMAIN tickets \cup {id}
                            /\ tickets'[id].status = PURCHASED
                            /\ tickets'[id].showtime_id = s
                            /\ tickets'[id].seat_number = seat
                      /\ \A t \in DOMAIN tickets : tickets'[t] = tickets[t]
                      /\ showtimes' = [showtimes EXCEPT ![s].sold_tickets = @ + 1] ]_vars

\* With room left in the theater, one purchase of a seat succeeded and a second
\* purchase of the same seat, with no cancel in between, was refused as taken.
PurchaseOutcomeOrder_witness ==
    \E p \in Procs : \E q \in Procs \ {p} : \E s \in ShowtimeIds :
        /\ Outcome(p, "purchaseTicket", OK)
        /\ Outcome(q, "purchaseTicket", SeatTaken)
        /\ showtimes[s].sold_tickets = 1
        /\ Capacity(s) = 2
        /\ Cardinality(DOMAIN tickets) = 1

\* The Purchased tickets on a seat of a showtime, in a given tickets table.
SeatHolders(tks, s, seat) ==
    { t \in DOMAIN tks :
        /\ tks[t].showtime_id = s
        /\ tks[t].seat_number = seat
        /\ tks[t].status = PURCHASED }

\* A ticket on the seat was cancelled, and no Purchased ticket holds the seat.
FreedByCancel(tks, s, seat) ==
    /\ \E t \in DOMAIN tks :
          /\ tks[t].showtime_id = s
          /\ tks[t].seat_number = seat
          /\ tks[t].status = CANCELLED
    /\ SeatHolders(tks, s, seat) = {}

\* C12: when calls come one after the other, a successful cancelTicket leaves
\* the seat of the ticket free, sold_tickets one lower and below the capacity;
\* and a purchaseTicket of a seat freed by a cancel, made while there is room,
\* succeeds, after which exactly one Purchased ticket holds the seat and
\* sold_tickets is one higher, i.e. back at its value before the cancel.
CancelFreesSeat ==
    [][ \A p \in Procs :
          /\ ( /\ result'[p] # result[p]
               /\ result'[p] = [op |-> "cancelTicket", outcome |-> OK] ) =>
                LET id == local[p].ticketId
                    s == tickets[id].showtime_id
                IN  /\ tickets[id].status = PURCHASED
                    /\ FreedByCancel(tickets', s, tickets[id].seat_number)
                    /\ showtimes'[s].sold_tickets = showtimes[s].sold_tickets - 1
                    /\ showtimes'[s].sold_tickets < Capacity(s)
          /\ ( /\ result'[p] # result[p]
               /\ result'[p].op = "purchaseTicket"
               /\ result'[p].outcome \notin {NotFound, PastOrOngoing, InvalidEmail, InvalidSeat}
               /\ FreedByCancel(tickets, local[p].showtimeId, local[p].ticketData.seat_number)
               /\ showtimes[local[p].showtimeId].sold_tickets < Capacity(local[p].showtimeId) ) =>
                LET s == local[p].showtimeId
                    seat == local[p].ticketData.seat_number
                IN  /\ result'[p].outcome = OK
                    /\ Cardinality(SeatHolders(tickets', s, seat)) = 1
                    /\ showtimes'[s].sold_tickets = showtimes[s].sold_tickets + 1 ]_vars

\* Purchase, cancel, purchase of one seat: the first ticket is Cancelled, the
\* second holds the seat, and sold_tickets is 1.
CancelFreesSeat_witness ==
    /\ Outcome("w1", "purchaseTicket", OK)
    /\ DOMAIN tickets = {1, 2}
    /\ tickets[1].status = CANCELLED
    /\ tickets[2].status = PURCHASED
    /\ tickets[1].showtime_id = tickets[2].showtime_id
    /\ tickets[1].seat_number = tickets[2].seat_number
    /\ showtimes[tickets[1].showtime_id].sold_tickets = 1

\* C13: the time guard of a purchase is evaluated under the lock: the
\* read-and-check a purchase makes while it holds the showtime's lock lets it
\* go on towards the insert only if the showtime starts after the current time.
PurchaseGuardUnderLock ==
    [][ \A p \in Procs :
          (pc[p] = "p_read" /\ pc'[p] \in {"p_seat", "p_save"}) =>
             /\ lock[local[p].showtimeId] = p
             /\ \A st \in LockedRead(p) : st.start_time > now ]_vars

\* C14: a cancelTicket call that finds the ticket already Cancelled fails with
\* the invalid-ticket-state error and changes neither a ticket nor a showtime.
CancelledTicketRejected ==
    [][ \A p \in Procs :
          ( /\ pc[p] = "c_validate"
            /\ pc'[p] # "c_validate"
            /\ \E t \in local[p].ticket : t.status = CANCELLED ) =>
             /\ result'[p] = [op |-> "cancelTicket", outcome |-> InvalidTicketState]
             /\ tickets' = tickets
             /\ showtimes' = showtimes ]_vars

\* C15: the time guard of a cancel is evaluated when its transaction decides:
\* the transaction goes on to set the ticket Cancelled only if the showtime of
\* the ticket starts after the current time.
CancelGuardInTransaction ==
    [][ \A p \in Procs :
          (pc[p] = "c_find" /\ pc'[p] = "c_update") =>
             \A t \in TxTicket(p) : t.showtime.start_time > now ]_vars

\* C16: over the operations on tickets, a ticket row appears with status
\* Purchased, and the status of a row changes only from Purchased to Cancelled
\* and only in the commit of a cancelTicket; a Cancelled ticket never becomes
\* Purchased or Reserved again.
TicketStateMachine ==
    [][ /\ \A id \in DOMAIN tickets' \ DOMAIN tickets : tickets'[id].status = PURCHASED
        /\ \A id \in DOMAIN tickets \cap DOMAIN tickets' :
              tickets'[id].status # tickets[id].status =>
                 /\ tickets[id].status = PURCHASED
                 /\ tickets'[id].status = CANCELLED
                 /\ \E p \in Procs : /\ pc[p] = "c_commit"
                                     /\ pc'[p] # "c_commit"
                                     /\ local[p].ticketId = id ]_vars

\* C17: sold_tickets of a showtime and the set of its occupied seats change
\* only in the commit of a purchase or of a cancel; no step of update (nor of
\* any other operation) changes either.
SingleWriterPath ==
    [][ \A s \in ShowtimeIds :
          ( \/ showtimes'[s].sold_tickets # showtimes[s].sold_tickets
            \/ getOccupiedSeats(s)' # getOccupiedSeats(s) ) =>
             \E p \in Procs : /\ pc[p] \in {"p_commit", "c_commit"}
                               /\ pc'[p] # pc[p] ]_vars

\* C18: a ticket row is deleted only by remove and is Cancelled at the moment
\* of deletion; the cancel that remove performs on a Purchased ticket turns it
\* Cancelled and takes exactly 1 off sold_tickets; a remove that fails deletes
\* nothing and leaves sold_tickets alone; and no step of remove breaks the
\* agreement of sold_tickets with the number of Purchased tickets.
RemoveDeletesCancelledOnly ==
    [][ /\ \A id \in DOMAIN tickets \ DOMAIN tickets' :
              /\ tickets[id].status = CANCELLED
              /\ \E p \in Procs : pc[p] = "r_delete" /\ local[p].ticketId = id
        /\ \A p \in Procs :
              /\ (local[p].op = "remove" /\ pc[p] = "c_commit" /\ pc'[p] # "c_commit") =>
                    LET id == local[p].ticketId
                        s == tickets[id].showtime_id
                    IN  /\ tickets[id].status = PURCHASED
                        /\ tickets'[id].status = CANCELLED
                        /\ showtimes'[s].sold_tickets = showtimes[s].sold_tickets - 1
              /\ ( /\ result'[p] # result[p]
                   /\ result'[p].op = "remove"
                   /\ result'[p].outcome # OK ) =>
                    (tickets' = tickets /\ showtimes' = showtimes)
              /\ (local[p].op = "remove" /\ pc'[p] # pc[p] /\ CounterConsistency) =>
                    CounterConsistency' ]_vars

\* C19: for every theater, candidate interval and excludeId,
\* findConflictingShowtime returns a showtime if and only if some showtime of
\* that theater, other than excludeId, has existing.start < end and
\* start < existing.end; what it returns is of that theater and is not
\* excludeId, and a showtime that merely touches the candidate (its end equal to
\* the candidate's start, or its start equal to the candidate's end) is not
\* returned.
OverlapDetectorSemantics ==
    \A th \in TheaterIds \cup {UnknownTheater} :
      \A start \in 0..(MaxTime + 2) : \A end \in (start + 1)..(MaxTime + 3) :
        \A excludeId \in ShowtimeIds \cup {NoShowtime} :
          LET found == findConflictingShowtime(th, start, end, excludeId)
          IN  /\ found # {} <=>
                    \E s \in DOMAIN showtimes :
                        /\ showtimes[s].theater_id = th
                        /\ s # excludeId
                        /\ showtimes[s].start_time < end
                        /\ start < showtimes[s].end_time
              /\ \A s \in found :
                    /\ showtimes[s].theater_id = th
                    /\ s # excludeId
                    /\ showtimes[s].end_time # start
                    /\ showtimes[s].start_time # end

\* Two showtimes of one theater stand back to back, so the detector let the
\* second through, and an update that would make them overlap was refused.
OverlapDetectorSemantics_witness ==
    /\ \E s \in DOMAIN showtimes : \E t \in DOMAIN showtimes :
          /\ showtimes[s].theater_id = showtimes[t].theater_id
          /\ showtimes[s].end_time = showtimes[t].start_time
    /\ Outcome("w1", "updateShowtime", SchedulingConflict)

\* No two showtimes of one theater have overlapping intervals [start, end).
NoOverlap ==
    \A s \in DOMAIN showtimes : \A t \in DOMAIN showtimes \ {s} :
        showtimes[s].theater_id = showtimes[t].theater_id =>
           ~(showtimes[s].start_time < showtimes[t].end_time
             /\ showtimes[t].start_time < showtimes[s].end_time)

\* The showtimes, other than self, that a showtime of the given theater and
\* interval would overlap.
WouldOverlap(self, th, start, end) ==
    { s \in DOMAIN showtimes \ {self} :
        /\ showtimes[s].theater_id = th
        /\ showtimes[s].start_time < end
        /\ start < showtimes[s].end_time }

\* C20: when createShowtime, removeShowtime and updateShowtime calls that give
\* a new start time and/or movie come one after the other, no two showtimes of
\* one theater overlap; a create that would overlap fails with the
\* scheduling-conflict error and changes nothing, and an update reaches its
\* write only with an interval that overlaps no other showtime of its theater.
SequentialScheduleNoOverlap ==
    [][ /\ NoOverlap'
        /\ \A p \in Procs :
              /\ ( /\ pc[p] = "sc_check" /\ pc'[p] # "sc_check"
                   /\ \E d \in local[p].saved :
                         WouldOverlap(NoShowtime, d.theater_id, d.start_time, d.end_time) # {} ) =>
                    /\ result'[p] = [op |-> "createShowtime", outcome |-> SchedulingConflict]
                    /\ showtimes' = showtimes
              /\ (pc'[p] = "su_write" /\ local'[p].showtimeId \in DOMAIN showtimes) =>
                    \A d \in local'[p].saved : \A start \in d.start_time : \A end \in d.end_time :
                       LET id == local'[p].showtimeId
                           th == IF d.theater_id = {} THEN showtimes[id].theater_id
                                 ELSE CHOOSE x \in d.theater_id : TRUE
                       IN  WouldOverlap(id, th, start, end) = {} ]_vars

\* Two showtimes share a theater, the second was refused where it would have
\* overlapped before, and the last call rescheduled one of them.
SequentialScheduleNoOverlap_witness ==
    /\ \E s \in DOMAIN showtimes : \E t \in DOMAIN showtimes \ {s} :
          /\ showtimes[s].theater_id = showtimes[t].theater_id
          /\ showtimes[s].end_time = 2
          /\ showtimes[s].movie_id = "m2"
    /\ Outcome("w1", "updateShowtime", OK)

\* C21: an updateShowtime that gives a theater and neither a start time nor a
\* movie is checked for conflicts in the target theater with its unchanged
\* interval, itself excluded: its validation goes on to the write only when no
\* other showtime of the target theater overlaps that interval, and a
\* scheduling-conflict failure changes no showtime.
RelocationConflictChecked ==
    [][ \A p \in Procs :
          /\ (pc[p] = "su_validate" /\ pc'[p] = "su_write") =>
                \A d \in local'[p].saved :
                   (d.start_time = {} /\ d.movie_id = {}) =>
                      \A th \in d.theater_id :
                         LET id == local[p].showtimeId
                         IN  WouldOverlap(id, th, showtimes[id].start_time,
                                          showtimes[id].end_time) = {}
          /\ (result'[p] # result[p] /\ result'[p].outcome = SchedulingConflict) =>
                showtimes' = showtimes ]_vars

\* C22: under any interleaving of concurrent createShowtime and updateShowtime
\* calls, no two showtimes of one theater have overlapping intervals.
ConcurrentScheduleNoOverlap == NoOverlap

\* C23: a createShowtime, and an updateShowtime that gives a new start time,
\* passes its validation only with a start time after the current time (a
\* start equal to the current time is rejected too), and a call that fails
\* with the past-date error creates and modifies no showtime.
StartMustBeInFuture ==
    [][ \A p \in Procs :
          /\ (pc[p] = "idle" /\ pc'[p] = "sc_check") =>
                \A d \in local'[p].saved : d.start_time > now
          /\ (pc[p] = "su_validate" /\ pc'[p] = "su_write") =>
                \A d \in local'[p].saved : \A t \in d.start_time : t > now
          /\ (result'[p] # result[p] /\ result'[p].outcome = PastDate) =>
                showtimes' = showtimes ]_vars

\* C24: a started showtime is frozen: an updateShowtime whose validation finds
\* the stored start at or before the current time fails with the
\* already-started error whatever its body, a removeShowtime whose guards find
\* it so is rejected, and either way the showtime stays as it was.
StartedShowtimeFrozen ==
    [][ \A p \in Procs :
          /\ ( /\ pc[p] = "su_validate" /\ pc'[p] # "su_validate"
               /\ \E st \in local[p].showtime : showtimes[st.id].start_time <= now ) =>
                /\ result'[p] = [op |-> "updateShowtime", outcome |-> AlreadyStarted]
                /\ showtimes' = showtimes
          /\ ( /\ pc[p] = "sd_check" /\ pc'[p] # "sd_check"
               /\ \E st \in local[p].showtime : showtimes[st.id].start_time <= now ) =>
                /\ result'[p].op = "removeShowtime"
                /\ result'[p].outcome \in {AlreadyStarted, HasSoldTickets}
                /\ showtimes' = showtimes ]_vars

\* A showtime that started with a ticket sold for it has just refused an update.
StartedShowtimeFrozen_witness ==
    /\ Outcome("w1", "updateShowtime", AlreadyStarted)
    /\ \E s \in DOMAIN showtimes :
          /\ showtimes[s].start_time = now
          /\ showtimes[s].sold_tickets > 0

\* C25: removeShowtime deletes the showtime if and only if, when its guards
\* are evaluated, the showtime exists, its sold_tickets is 0 and its start is
\* after the current time: with these it goes on to the delete, which removes
\* the row and succeeds; otherwise the call fails, and a call that fails leaves
\* every showtime in place.
DeleteGuard ==
    [][ \A p \in Procs :
          LET id == local[p].showtimeId
              deletable == /\ id \in DOMAIN showtimes
                           /\ showtimes[id].sold_tickets = 0
                           /\ showtimes[id].start_time > now
          IN  /\ (pc[p] = "sd_check" /\ pc'[p] # "sd_check") =>
                    /\ showtimes' = showtimes
                    /\ IF deletable THEN pc'[p] = "sd_delete"
                       ELSE /\ result'[p].op = "removeShowtime"
                            /\ result'[p].outcome \in {NotFound, HasSoldTickets, AlreadyStarted}
              /\ (pc[p] = "sd_delete" /\ pc'[p] # "sd_delete") =>
                    /\ result'[p] = [op |-> "removeShowtime", outcome |-> OK]
                    /\ id \notin DOMAIN showtimes' ]_vars

\* C26: under any interleaving of removeShowtime with concurrent purchaseTicket
\* calls, a showtime that has a committed Purchased ticket is not deleted, and
\* every committed ticket refers to a showtime that exists.
DeleteNeverOrphansTickets ==
    [][ /\ \A s \in DOMAIN showtimes :
              (\E t \in DOMAIN tickets :
                  tickets[t].showtime_id = s /\ tickets[t].status = PURCHASED)
              => s \in DOMAIN showtimes'
        /\ \A t \in DOMAIN tickets' : tickets'[t].showtime_id \in DOMAIN showtimes' ]_vars

\* The delete passed its guards while nothing was sold, a purchase committed
\* first, and the delete failed on the ticket: the race was lost by the delete.
DeleteNeverOrphansTickets_witness ==
    /\ Outcome("w3", "removeShowtime", ForeignKeyViolation)
    /\ \E t \in DOMAIN tickets : tickets[t].status = PURCHASED
    /\ \E p \in Workers : Outcome(p, "purchaseTicket", OK)

\* C27: every showtime has end_time = start_time + the duration of the movie
\* it refers to, after createShowtime, after updateShowtime and after an update
\* of the movie's duration.
EndTimeDerived ==
    \A s \in DOMAIN showtimes :
        showtimes[s].end_time =
            showtimes[s].start_time + movies[showtimes[s].movie_id].duration

\* C28: a showtime with sold tickets is immutable: an updateShowtime whose
\* validation finds sold_tickets > 0 is rejected and changes no showtime, and
\* the start, end, movie, theater and price of a showtime change only while its
\* sold_tickets is 0.
SoldShowtimeImmutable ==
    [][ /\ \A p \in Procs :
              ( /\ pc[p] = "su_validate" /\ pc'[p] # "su_validate"
                /\ \E st \in local[p].showtime : showtimes[st.id].sold_tickets > 0 ) =>
                 /\ pc'[p] = "idle"
                 /\ result'[p].op = "updateShowtime"
                 /\ result'[p].outcome # OK
                 /\ showtimes' = showtimes
        /\ \A s \in DOMAIN showtimes \cap DOMAIN showtimes' :
              ( \/ showtimes'[s].start_time # showtimes[s].start_time
                \/ showtimes'[s].end_time # showtimes[s].end_time
                \/ showtimes'[s].movie_id # showtimes[s].movie_id
                \/ showtimes'[s].theater_id # showtimes[s].theater_id
                \/ showtimes'[s].price # showtimes[s].price ) =>
                 showtimes[s].sold_tickets = 0 ]_vars

CapacityReductionGuard ==
    [][ \A p \in Procs :
          (pc[p] = "tu_validate" /\ pc'[p] # "tu_validate") =>
             \A d \in local[p].saved : \A P \in d.capacity :
                (P >= 1 /\ P < theaters[d.id].capacity) =>
                   IF \E s \in DOMAIN showtimes :
                         showtimes[s].theater_id = d.id /\ showtimes[s].sold_tickets > P
                   THEN /\ result'[p] = [op |-> "updateTheater", outcome |-> CapacityBelowSold]
                        /\ theaters' = theaters
                   ELSE /\ result'[p] = [op |-> "updateTheater", outcome |-> OK]
                        /\ theaters' = [theaters EXCEPT ![d.id].capacity = P] ]_vars

\* The capacity of a theater was lowered to exactly the number of tickets sold
\* for its showtime.
CapacityReductionGuard_witness ==
    /\ Outcome("w1", "updateTheater", OK)
    /\ theaters["th1"].capacity = 1
    /\ \E s \in DOMAIN showtimes :
          /\ showtimes[s].theater_id = "th1"
          /\ showtimes[s].sold_tickets = 1

\* C31: getAvailability returns total_capacity = the capacity of the theater,
\* sold_tickets = the committed sold_tickets of the showtime, available_seats
\* = capacity - sold_tickets and is_sold_out exactly when available_seats <= 0;
\* its read is never kept waiting by a purchase or cancel in progress, and it
\* changes neither a table nor a lock.
AvailabilityProjection ==
    /\ [](\A p \in Procs : pc[p] = "q_availability" => ENABLED getAvailability_read(p))
    /\ [][ \A p \in Procs :
             (pc[p] = "q_availability" /\ pc'[p] # "q_availability") =>
                /\ UNCHANGED <<theaters, showtimes, tickets, lock, tlock>>
                /\ LET id == local[p].showtimeId IN
                      IF id \notin DOMAIN showtimes
                      THEN result'[p] = [op |-> "getAvailability", outcome |-> NotFound]
                      ELSE LET v == result'[p].value
                               capacity == theaters[showtimes[id].theater_id].capacity
                           IN  /\ result'[p].outcome = OK
                               /\ v.total_capacity = capacity
                               /\ v.sold_tickets = showtimes[id].sold_tickets
                               /\ v.available_seats = capacity - showtimes[id].sold_tickets
                               /\ v.is_sold_out <=> (v.available_seats <= 0) ]_vars

\* A showtime was reported sold out with no seat left while the transaction of
\* another handler held its lock.
AvailabilityProjection_witness ==
    \E p \in Procs : \E q \in Procs \ {p} :
        /\ result[p].op = "getAvailability"
        /\ result[p].outcome = OK
        /\ result[p].value.is_sold_out
        /\ result[p].value.available_seats = 0
        /\ lock[result[p].value.showtime_id] = q

\* C40: getOccupiedSeats returns exactly the seat numbers of the committed
\* Purchased tickets of the showtime, once for each such ticket (no seat of a
\* Cancelled ticket, none of another showtime), so that the length of the list
\* is the committed sold_tickets whenever sold_tickets agrees with the number
\* of Purchased tickets; its reads are never kept waiting and it changes
\* neither a table nor a lock.
OccupiedSeatsListing ==
    /\ [](\A p \in Procs :
            /\ pc[p] = "q_seats_check" => ENABLED listOccupiedSeats_check(p)
            /\ pc[p] = "q_seats_read" => ENABLED listOccupiedSeats_read(p))
    /\ [][ \A p \in Procs :
             /\ (pc[p] \in {"q_seats_check", "q_seats_read"} /\ pc'[p] # pc[p]) =>
                   UNCHANGED <<theaters, showtimes, tickets, lock, tlock>>
             /\ (pc[p] = "q_seats_read" /\ pc'[p] # "q_seats_read") =>
                   LET id == local[p].showtimeId
                       v == result'[p].value
                       purchased == { t \in DOMAIN tickets :
                                        /\ tickets[t].showtime_id = id
                                        /\ tickets[t].status = PURCHASED }
                   IN  /\ result'[p].outcome = OK
                       /\ DOMAIN v.count = { tickets[t].seat_number : t \in purchased }
                       /\ \A seat \in DOMAIN v.count :
                             v.count[seat] =
                                Cardinality({ t \in purchased : tickets[t].seat_number = seat })
                       /\ v.length = Cardinality(purchased)
                       /\ (id \in DOMAIN showtimes /\ CounterConsistency) =>
                             v.length = showtimes[id].sold_tickets ]_vars

\* The listing of a showtime returned one seat while a Cancelled ticket of
\* that showtime was in the table.
OccupiedSeatsListing_witness ==
    \E p \in Procs :
        /\ result[p].op = "getOccupiedSeats"
        /\ result[p].outcome = OK
        /\ result[p].value.length = 1
        /\ \E t \in DOMAIN tickets : \E u \in DOMAIN tickets :
              /\ tickets[t].status = CANCELLED
              /\ tickets[u].status = PURCHASED
              /\ tickets[t].showtime_id = tickets[u].showtime_id
              /\ tickets[u].seat_number \in DOMAIN result[p].value.count

\* C32: the price of a ticket is the price its showtime had when the purchase
\* transaction read the showtime under the lock, and it never changes
\* afterwards: not by a later change of the showtime's price, not by an update
\* of the ticket and not by its cancellation.
PriceSnapshot ==
    [][ /\ \A p \in Procs :
             (pc[p] = "p_read" /\ pc'[p] = "p_seat") =>
                 \A st \in local'[p].showtime :
                     st.price = showtimes[local[p].showtimeId].price
        /\ \A t \in DOMAIN tickets' \ DOMAIN tickets :
             \E p \in Procs :
                 /\ pc[p] = "p_commit"
                 /\ local[p].ticketId = t
                 /\ \A st \in local[p].showtime : tickets'[t].price = st.price
                 /\ tickets'[t].price = showtimes[tickets'[t].showtime_id].price
        /\ \A t \in DOMAIN tickets \cap DOMAIN tickets' :
             tickets'[t].price = tickets[t].price ]_vars

\* A ticket bought at 10 was cancelled, or had its seat changed, after the
\* price of its showtime had become 12, and still carries 10.
PriceSnapshot_witness ==
    \E t \in DOMAIN tickets :
        /\ tickets[t].price = 10
        /\ showtimes[tickets[t].showtime_id].price = 12
        /\ \/ tickets[t].status = CANCELLED
           \/ tickets[t].seat_number = <<"A", "-", "2">>
        /\ \E p \in Procs : result[p].op \in {"cancelTicket", "update"} /\ result[p].outcome = OK

\* The showtime the transaction of handler p works on.
TargetShowtime(p) ==
    IF local[p].op = "purchaseTicket" THEN local[p].showtimeId
    ELSE (CHOOSE t \in local[p].ticket : TRUE).showtime.id

\* Handler p is inside a purchase or cancel transaction.
InTransaction(p) ==
    pc[p] \in {"p_lock", "p_read", "p_seat", "p_save", "p_increment", "p_commit",
               "c_update", "c_decrement", "c_commit", "rollback"}

\* No other handler holds the lock of the showtime, or of one of its tickets.
Unhindered(p, s) ==
    /\ lock[s] \in {NoProc, p}
    /\ \A t \in DOMAIN tickets :
          tickets[t].showtime_id = s => tlock[t] \in {NoProc, p}

\* C33: locks are per showtime: a purchase or cancel transaction on a showtime
\* can take its next step, up to and including its commit, whenever no other
\* handler holds the lock of that showtime or of one of its tickets, whatever
\* locks are held on other showtimes; in particular a purchase waiting for the
\* lock of B is granted it while the lock of A is held.
LocksPerShowtime ==
    \A p \in Procs :
        (InTransaction(p) /\ Unhindered(p, TargetShowtime(p))) =>
            ENABLED (PurchaseTransaction(p) \/ cancel_update(p)
                        \/ cancel_decrement(p) \/ cancel_commit(p))

\* Two handlers are inside purchase transactions on different showtimes, each
\* holding the lock of its own showtime.
LocksPerShowtime_witness ==
    \E p \in Procs : \E q \in Procs \ {p} :
        /\ lock["s1"] = p /\ lock["s2"] = q
        /\ pc[p] = "p_commit" /\ pc[q] = "p_read"

\* The class of the exception that carries an outcome to the caller.
ExceptionClass(outcome) ==
    CASE outcome \in {PastOrOngoing, InvalidEmail, InvalidSeat, SoldOut, SeatTaken,
                      InvalidTicketState, TicketGone, CancelContention}
              -> "BadRequestException"
      [] outcome = NotFound -> "NotFoundException"
      [] outcome = PurchaseContention -> "QueryFailedError"
      [] outcome \in {ShowtimeGone, TicketVanished} -> "Error"
      [] OTHER -> outcome

\* The errors of the business rules of purchase and cancel.
BusinessErrors == {SoldOut, SeatTaken, InvalidTicketState, PastOrOngoing}

\* C34: when the store gives up the lock request of a purchase or of a
\* cancellation, the call fails with an error whose kind is the kind of no
\* business error (sold out, seat taken, invalid ticket state, past or ongoing
\* showtime), and it commits no change of a ticket or of sold_tickets.
ContentionIsDistinct ==
    /\ [](\A p \in Procs :
            result[p].outcome \in {PurchaseContention, CancelContention} =>
                \A e \in BusinessErrors :
                    ExceptionClass(result[p].outcome) # ExceptionClass(e))
    /\ [][ \A p \in Procs :
             (pc[p] = "rollback" /\ pc'[p] = "idle"
                 /\ local[p].err \in {PurchaseContention, CancelContention}) =>
                   /\ UNCHANGED <<tickets, showtimes>>
                   /\ \A s \in DOMAIN lock : lock'[s] # p
                   /\ \A t \in DOMAIN tlock : tlock'[t] # p ]_vars

\* C35: an updateTicket that changes the seat of a ticket which is Purchased
\* leaves no other Purchased ticket of the same showtime on the seat it wrote
\* (the trimmed, upper-cased form of the seat given), whatever the case and
\* the surrounding blanks of the seat given.
UpdateKeepsSeatsUnique ==
    [][ \A p \in Procs :
          (pc[p] = "u_write" /\ pc'[p] = "idle") =>
             \A t \in DOMAIN tickets \cap DOMAIN tickets' :
                (/\ tickets'[t].seat_number # tickets[t].seat_number
                 /\ tickets'[t].status = PURCHASED) =>
                    \A u \in DOMAIN tickets' \ {t} :
                       ~ /\ tickets'[u].showtime_id = tickets'[t].showtime_id
                         /\ tickets'[u].status = PURCHASED
                         /\ tickets'[u].seat_number = tickets'[t].seat_number ]_vars

\* C36: a purchase whose showtime is gone when its transaction looks for it
\* fails as NotFound, a cancellation whose ticket is gone when its transaction
\* looks for it fails as NotFound, one whose ticket is no longer Purchased fails
\* as invalid ticket state; the caller gets that error and nothing is committed.
FailureKindsKept ==
    [][ \A p \in Procs :
          /\ (/\ pc[p] \in {"p_lock", "p_read"}
              /\ pc'[p] # pc[p]
              /\ local[p].showtimeId \notin DOMAIN showtimes) =>
                 pc'[p] = "rollback" /\ local'[p].err = NotFound
          /\ (/\ pc[p] = "c_find"
              /\ pc'[p] # pc[p]
              /\ local[p].ticketId \notin DOMAIN tickets) =>
                 pc'[p] = "rollback" /\ local'[p].err = NotFound
          /\ (/\ pc[p] = "c_find"
              /\ pc'[p] # pc[p]
              /\ local[p].ticketId \in DOMAIN tickets
              /\ tickets[local[p].ticketId].status # PURCHASED) =>
                 pc'[p] = "rollback" /\ local'[p].err = InvalidTicketState
          /\ (pc[p] = "rollback" /\ pc'[p] = "idle") =>
                 /\ result'[p].outcome = local[p].err
                 /\ UNCHANGED <<tickets, showtimes>> ]_vars

\* C37: a purchase for a showtime on sale, with a well-formed e-mail, goes on
\* to its transaction exactly when the seat given, trimmed and upper-cased, is
\* one or two letters, a hyphen and one to three digits, and it then carries
\* that trimmed, upper-cased seat, which is the seat stored on the ticket; a
\* malformed seat or e-mail is turned away before the transaction, with no
\* lock taken and no table changed.
SeatFormatAcceptance ==
    [][ \A p \in Procs :
          /\ (/\ pc[p] = "p_validate"
              /\ pc'[p] # "p_validate"
              /\ \E st \in local[p].showtime : st.start_time > now) =>
                 LET dto == local[p].ticketData
                     seat == toUpperCase(trim(dto.seat_number))
                     wellFormed == isValidEmail(dto.customer_email) /\ isValidSeatNumber(seat)
                 IN  /\ pc'[p] = "p_lock" <=> wellFormed
                     /\ pc'[p] = "p_lock" => local'[p].ticketData.seat_number = seat
                     /\ ~wellFormed =>
                           /\ result'[p].outcome \in {InvalidEmail, InvalidSeat}
                           /\ UNCHANGED <<showtimes, tickets, lock, tlock>>
          /\ (pc[p] = "p_commit" /\ pc'[p] = "idle") =>
                 tickets'[local[p].ticketId].seat_number = local[p].ticketData.seat_number
      ]_vars

\* C38: with fair scheduling and a store that never gives up a lock request,
\* every purchaseTicket and cancelTicket call that has begun returns, on the
\* same showtime or on different ones; a handler that has returned holds no
\* lock, whether it committed or rolled back.
CallsReturn ==
    /\ [](\A p \in Procs : pc[p] = "idle" =>
             /\ \A s \in DOMAIN lock : lock[s] # p
             /\ \A t \in DOMAIN tlock : tlock[t] # p)
    /\ \A p \in Workers : (pc[p] # "idle") ~> (pc[p] = "idle")

\* A cancellation that has updated its ticket waits for the lock of the
\* showtime, which the transaction of a purchase holds.
CallsReturn_witness ==
    /\ pc["w2"] = "c_decrement"
    /\ \E t \in local["w2"].ticket : lock[t.showtime.id] = "w1"
    /\ pc["w1"] \in {"p_read", "p_seat", "p_save", "p_increment", "p_commit"}

\* C39: the commit of a cancelTicket call turns its ticket from Purchased to
\* Cancelled and takes exactly one off the sold_tickets of that ticket's
\* showtime, in one step, leaving every other ticket, every other showtime and
\* every other column of the ticket as they were; no other step of the call
\* changes a ticket or a showtime.
CancelEffect ==
    [][ \A p \in Procs :
          /\ (pc[p] = "c_commit" /\ pc'[p] = "idle") =>
                LET id == local[p].ticketId IN
                   /\ id \in DOMAIN tickets
                   /\ tickets[id].status = PURCHASED
                   /\ tickets' = [tickets EXCEPT ![id].status = CANCELLED]
                   /\ showtimes' = [showtimes EXCEPT
                                      ![tickets[id].showtime_id].sold_tickets = @ - 1]
          /\ (/\ pc[p] \in {"c_validate", "c_find", "c_update", "c_decrement"}
              /\ pc'[p] # pc[p]) =>
                UNCHANGED <<tickets, showtimes>> ]_vars

====
